---- MODULE Spec2Model ----
(***************************************************************************)
(* A model of the image steganography codec: the bit codec                 *)
(* (Encoder.encode_data / Decoder.decode_data), the redundancy pipeline    *)
(* (rs_encode / rs_decode, repetition with majority voting), the pattern   *)
(* resolver and the encode / decode orchestrators                          *)
(* (Encoder.apply_pattern / Decoder.extract_data).                         *)
(*                                                                         *)
(* Conventions.  A byte buffer is a sequence of integers in 0..255.  A     *)
(* Python string of channel letters is a sequence of one-letter strings.   *)
(* A raster is a sequence of pixels, a pixel a sequence of channel values. *)
(* Python indices are 0-based; the sequences here are 1-based, and every   *)
(* index that the code computes (offset, last_pixel, bit_index, ...) keeps *)
(* its 0-based value.  A raised exception is a result whose err field is   *)
(* the exception's name ("" when the call returned).                       *)
(***************************************************************************)
EXTENDS Integers, Sequences, FiniteSets, TLC

VARIABLES
    pc,         \* position of the scenario: which calls have been made
    mode,       \* self.image.mode: the channel layout of the loaded image
    pixels,     \* the input raster (get_image_pixels(self.image))
    data,       \* the caller's payload / data buffer
    pattern,    \* the fields of the loaded Pattern object
    args,       \* arguments of a direct encode_data / decode_data call
    encoded,    \* what the encoding call returned
    buffer,     \* a byte buffer in flight between an encode and a decode
    corrupted,  \* the 1-based positions of buffer changed in flight
    decoded     \* what the decoding call returned

vars == <<pc, mode, pixels, data, pattern, args, encoded, buffer, corrupted, decoded>>

-----------------------------------------------------------------------------
(* Bounds of the model *)

\* longest payload handed to a direct encode_data call
MaxDataLen == 2
\* largest raster (in pixels) of a direct encode_data call
MaxPixels == 6
\* largest offset of a direct encode_data call
MaxOffset == 2
\* largest byte_spacing
MaxSpacing == 2

-----------------------------------------------------------------------------
(* Generic helpers *)

Min(a, b) == IF a < b THEN a ELSE b
Max(a, b) == IF a > b THEN a ELSE b

Range(s) == {s[i] : i \in DOMAIN s}

\* Python's  x in s  for a letter x and a string s
In(x, s) == \E i \in DOMAIN s : s[i] = x

\* Python's s[a:b] on 0-based non-negative bounds
Slice(s, a, b) == SubSeq(s, a + 1, Min(b, Len(s)))

\* Python's s[a:]
SliceFrom(s, a) == SubSeq(s, a + 1, Len(s))

\* The element of a one-element set.  Value({F(x) : x \in {e}}) is F(e) with e
\* evaluated once: the way a local of the code is given its value.
Value(S) == CHOOSE x \in S : TRUE

RECURSIVE Pow2(_)
Pow2(n) == IF n = 0 THEN 1 ELSE 2 * Pow2(n - 1)

\* ceil(a / b) and floor(a / b) for naturals a, b > 0
CeilDiv(a, b) == (a + b - 1) \div b

\* format(value, '08b'): at least 8 binary digits, most significant first
format_08b(value) == [i \in 1..8 |-> (value \div Pow2(8 - i)) % 2]

\* int(bits, 2) of a non-empty digit string
RECURSIVE int_2(_)
int_2(bits) ==
    IF Len(bits) = 0 THEN 0
    ELSE 2 * int_2(SubSeq(bits, 1, Len(bits) - 1)) + bits[Len(bits)]

\* ''.join(format(byte, '08b') for byte in data)
DataBits(d) ==
    [j \in 1..(8 * Len(d)) |-> format_08b(d[((j - 1) \div 8) + 1])[((j - 1) % 8) + 1]]

\* the sequences over S of length 0..n
SeqsUpTo(S, n) == UNION {[1..k -> S] : k \in 0..n}

-----------------------------------------------------------------------------
(* The bit codec: Encoder.encode_data *)

\* One iteration of the channel loop of encode_data.
\* st = [bit_index, channel_counters, new_pixel]
EncodeChannelStep(st, value, channel, channels, bit_frequency, byte_spacing, data_bits) ==
    IF In(channel, channels)
    THEN LET counted == [st.channel_counters EXCEPT ![channel] = @ + 1]
         IN  IF st.bit_index < Len(data_bits)
             THEN IF st.channel_counters[channel] % byte_spacing = 0
                  THEN LET value_bits == format_08b(value)
                           new_value_bits ==
                               SubSeq(value_bits, 1, 8 - bit_frequency)
                               \o Slice(data_bits, st.bit_index, st.bit_index + bit_frequency)
                       IN  [bit_index |-> st.bit_index + bit_frequency,
                            channel_counters |-> counted,
                            new_pixel |-> Append(st.new_pixel, int_2(new_value_bits))]
                  ELSE [st EXCEPT !.channel_counters = counted,
                                  !.new_pixel = Append(@, value)]
             ELSE [st EXCEPT !.channel_counters = counted,
                             !.new_pixel = Append(@, value)]
    ELSE [st EXCEPT !.new_pixel = Append(@, value)]

\* The channel loop of encode_data over one pixel, from channel_index (1-based) on.
RECURSIVE EncodePixel(_, _, _, _, _, _, _, _)
EncodePixel(pixel, channel_index, st, image_mode, channels, bit_frequency, byte_spacing, data_bits) ==
    IF channel_index > Len(pixel) THEN st
    ELSE EncodePixel(pixel, channel_index + 1,
             EncodeChannelStep(st, pixel[channel_index],
                 image_mode[((channel_index - 1) % Len(image_mode)) + 1],
                 channels, bit_frequency, byte_spacing, data_bits),
             image_mode, channels, bit_frequency, byte_spacing, data_bits)

\* The pixel loop of encode_data from pixel_index (0-based) on.
\* lp = [bit_index, channel_counters, encoded_pixels, last_pixel]
RECURSIVE EncodeLoop(_, _, _, _, _, _, _, _)
EncodeLoop(pxs, pixel_index, lp, image_mode, channels, bit_frequency, byte_spacing, data_bits) ==
    IF pixel_index >= Len(pxs) THEN lp
    ELSE LET st == EncodePixel(pxs[pixel_index + 1], 1,
                       [bit_index |-> lp.bit_index,
                        channel_counters |-> lp.channel_counters,
                        new_pixel |-> <<>>],
                       image_mode, channels, bit_frequency, byte_spacing, data_bits)
             next == [bit_index |-> st.bit_index,
                      channel_counters |-> st.channel_counters,
                      encoded_pixels |-> Append(lp.encoded_pixels, st.new_pixel),
                      last_pixel |-> lp.last_pixel]
         IN  IF st.bit_index >= Len(data_bits)
             THEN [next EXCEPT !.last_pixel = pixel_index]   \* break
             ELSE EncodeLoop(pxs, pixel_index + 1, next, image_mode, channels,
                             bit_frequency, byte_spacing, data_bits)

\* Encoder.encode_data: returns (encoded_pixels, last_pixel - offset)
encode_data(image_mode, pxs, d, channels, bit_frequency, byte_spacing, offset) ==
    Value({[pixels |-> lp.encoded_pixels \o SliceFrom(pxs, lp.last_pixel + 1),
            span |-> lp.last_pixel - offset] :
           lp \in {EncodeLoop(pxs, offset,
                       [bit_index |-> 0,
                        channel_counters |-> [c \in Range(image_mode) |-> 0],
                        encoded_pixels |-> Slice(pxs, 0, Max(offset, 0)),
                        last_pixel |-> 0],
                       image_mode, channels, bit_frequency, byte_spacing, DataBits(d))}})

-----------------------------------------------------------------------------
(* The bit codec: Decoder.decode_data *)

\* One iteration of the channel loop of decode_data.
\* st = [data_bits, channel_counters]
DecodeChannelStep(st, value, channel, channels, bit_frequency, byte_spacing) ==
    IF In(channel, channels)
    THEN [data_bits |->
              IF st.channel_counters[channel] % byte_spacing = 0
              THEN st.data_bits \o SubSeq(format_08b(value), 9 - bit_frequency, 8)
              ELSE st.data_bits,
          channel_counters |-> [st.channel_counters EXCEPT ![channel] = @ + 1]]
    ELSE st

\* The channel loop of decode_data over one pixel; hit is set by the inner break.
RECURSIVE DecodePixel(_, _, _, _, _, _, _, _)
DecodePixel(pixel, channel_index, st, image_mode, channels, bit_frequency, byte_spacing, data_length) ==
    IF channel_index > Len(pixel) THEN [st |-> st, hit |-> FALSE]
    ELSE LET st2 == DecodeChannelStep(st, pixel[channel_index],
                        image_mode[((channel_index - 1) % Len(image_mode)) + 1],
                        channels, bit_frequency, byte_spacing)
         IN  IF Len(st2.data_bits) >= data_length * 8
             THEN [st |-> st2, hit |-> TRUE]
             ELSE DecodePixel(pixel, channel_index + 1, st2, image_mode, channels,
                              bit_frequency, byte_spacing, data_length)

\* The pixel loop of decode_data from pixel_index (0-based) on.
\* lp = [data_bits, channel_counters, last_pixel]
RECURSIVE DecodeLoop(_, _, _, _, _, _, _, _)
DecodeLoop(pxs, pixel_index, lp, image_mode, channels, bit_frequency, byte_spacing, data_length) ==
    IF pixel_index >= Len(pxs) THEN lp
    ELSE LET r == DecodePixel(pxs[pixel_index + 1], 1,
                      [data_bits |-> lp.data_bits, channel_counters |-> lp.channel_counters],
                      image_mode, channels, bit_frequency, byte_spacing, data_length)
         IN  IF r.hit
             THEN [data_bits |-> r.st.data_bits,
                   channel_counters |-> r.st.channel_counters,
                   last_pixel |-> pixel_index]
             ELSE DecodeLoop(pxs, pixel_index + 1,
                      [data_bits |-> r.st.data_bits,
                       channel_counters |-> r.st.channel_counters,
                       last_pixel |-> lp.last_pixel],
                      image_mode, channels, bit_frequency, byte_spacing, data_length)

\* Decoder.decode_data: returns (data_bytes, last_pixel - offset); int('', 2) of
\* a missing byte raises ValueError, a byte cut short is read from the bits left.
decode_data(image_mode, pxs, data_length, channels, bit_frequency, byte_spacing, offset) ==
    Value({\* some byte slice data_bits[8k : 8k + 8], k < data_length, is empty
           IF data_length >= 1 /\ 8 * (data_length - 1) >= Len(lp.data_bits)
           THEN [err |-> "ValueError", data |-> <<>>, span |-> 0]
           ELSE [err |-> "",
                 data |-> [k \in 1..data_length |->
                              int_2(Slice(lp.data_bits, 8 * (k - 1), 8 * k))],
                 span |-> lp.last_pixel - offset] :
           lp \in {DecodeLoop(pxs, offset,
                       [data_bits |-> <<>>,
                        channel_counters |-> [c \in Range(image_mode) |-> 0],
                        last_pixel |-> offset],
                       image_mode, channels, bit_frequency, byte_spacing, data_length)}})

-----------------------------------------------------------------------------
(* Reed-Solomon layer: rs_encode / rs_decode                               *)
(*                                                                         *)
(* A correction factor is the fraction num / (den * 10^exp), written as a  *)
(* record [num, den] (exp = 0) or [num, den, exp].  The code computes its  *)
(* sizes in floating point and rounds two of them to ROUND_DIGITS decimal  *)
(* places before taking the ceiling or the floor; the operators below      *)
(* compute the same integers from the fraction, comparing scaled integers  *)
(* instead of forming 10^ROUND_DIGITS.                                     *)

RS_CHUNK_SIZE == 255

\* the ndigits of round(..., 10) in rs_encode and rs_decode
ROUND_DIGITS == 10

DecimalExponent(f) == IF "exp" \in DOMAIN f THEN f.exp ELSE 0

RECURSIVE Pow10(_)
Pow10(n) == IF n = 0 THEN 1 ELSE 10 * Pow10(n - 1)

\* a <= b * 10^k for naturals a, b, k
RECURSIVE LeqPow(_, _, _)
LeqPow(a, b, k) ==
    IF a <= b THEN TRUE
    ELSE IF k = 0 \/ b = 0 THEN FALSE
    ELSE LeqPow(a, 10 * b, k - 1)

\* a * 10^i <= b * 10^j for naturals a, b, i, j
LeqScaled(a, i, b, j) ==
    IF j >= i THEN LeqPow(a, b, j - i) ELSE ~LeqPow(b + 1, a, i - j)

\* ceil(a / (b * 10^k))
RECURSIVE CeilDivPow(_, _, _)
CeilDivPow(a, b, k) ==
    IF k = 0 THEN CeilDiv(a, b) ELSE CeilDivPow(CeilDiv(a, 10), b, k - 1)

\* ceil(correction_factor * n * 2)
RedundantSymbols(f, n) == CeilDivPow(2 * f.num * n, f.den, DecimalExponent(f))

\* round(a / (b * 10^e), ROUND_DIGITS) <= k, that is
\* a / (b * 10^e) <= k + 10^-ROUND_DIGITS / 2 (a tie rounds to the even
\* neighbour, which is k)
RoundsDownTo(a, b, e, k) ==
    IF LeqScaled(a, 0, k * b, e) THEN TRUE
    ELSE LeqScaled(2 * (IF k = 0 THEN a ELSE a - k * b * Pow10(e)), ROUND_DIGITS, b, e)

\* ceil(round(correction_factor * data_size * 2, 10))
TotalRedundantSymbols(f, data_size) ==
    LET c == RedundantSymbols(f, data_size)
    IN  IF c > 0 /\ RoundsDownTo(2 * f.num * data_size, f.den, DecimalExponent(f), c - 1)
        THEN c - 1
        ELSE c

\* floor(size / (1 + correction_factor * 2)): the largest k with
\* k * (1 + 2f) <= size, that is 2 * k * num <= (size - k) * den * 10^exp
FloorShare(size, f) ==
    IF DecimalExponent(f) = 0
    THEN (size * f.den) \div (f.den + 2 * f.num)
    ELSE LET fits(k) == LeqScaled(2 * k * f.num, 0, (size - k) * f.den, DecimalExponent(f))
         IN  CHOOSE k \in 0..size : fits(k) /\ (k = size \/ ~fits(k + 1))

\* floor(RS_CHUNK_SIZE / (1 + correction_factor * 2))
MaxDataSymbolsInChunk(f) == FloorShare(RS_CHUNK_SIZE, f)

\* round(size / (1 + 2f), ROUND_DIGITS) >= k, that is
\* size / (1 + 2f) >= k - 10^-ROUND_DIGITS / 2; with D = den * 10^exp and
\* G = 2 * k * num - (size - k) * D this is D + 2 * num >= 2 * 10^ROUND_DIGITS * G.
\* For exp >= ROUND_DIGITS, G > 0 only when size = k, and both D and
\* 4 * k * num * 10^ROUND_DIGITS are multiples of 10^ROUND_DIGITS, so that
\* the term 2 * num < 10^ROUND_DIGITS does not change the comparison.
RoundsUpTo(size, f, k) ==
    LET e == DecimalExponent(f)
    IN  IF k > size THEN FALSE
        ELSE IF LeqScaled(2 * k * f.num, 0, (size - k) * f.den, e) THEN TRUE
        ELSE IF e < ROUND_DIGITS
        THEN LeqScaled(2 * (2 * k * f.num - (size - k) * f.den * Pow10(e)), ROUND_DIGITS,
                       f.den * Pow10(e) + 2 * f.num, 0)
        ELSE size = k /\ LeqScaled(4 * k * f.num, ROUND_DIGITS, f.den, e)

\* floor(round(encoded_data_size / (1 + used_correction_factor * 2), 10))
DataSymbolsOf(encoded_data_size, f) ==
    LET k == FloorShare(encoded_data_size, f)
    IN  IF RoundsUpTo(encoded_data_size, f, k + 1) THEN k + 1 ELSE k

\* The reedsolo library's RSCodec(nsym).encode(chunk): the chunk followed by
\* nsym check symbols that are a function of the chunk.  The library's field
\* arithmetic is replaced by a checksum: only the layout and the dependence
\* on the chunk are modelled.
RECURSIVE WeightedSum(_, _, _, _)
WeightedSum(chunk, w, lo, hi) ==
    IF lo > hi THEN 0
    ELSE IF lo = hi THEN (lo * w + 1) * chunk[lo]
    ELSE LET mid == (lo + hi) \div 2
         IN  WeightedSum(chunk, w, lo, mid) + WeightedSum(chunk, w, mid + 1, hi)

RSCodecEncode(chunk, nsym) ==
    LET a == WeightedSum(chunk, 0, 1, Len(chunk))
        b == WeightedSum(chunk, 1, 1, Len(chunk))
    IN  chunk \o [j \in 1..nsym |-> (a + j * b + 7 * j + Len(chunk)) % 256]

\* the number of positions at which two buffers of the same length differ
Distance(x, y) == Cardinality({i \in DOMAIN x : x[i] # y[i]})

\* The library's RSCodec(nsym).decode(chunk), by its contract: a chunk within
\* floor(nsym / 2) symbol errors of the transmitted code word sent decodes to
\* the message of that code word; a chunk that is itself a code word decodes
\* to its own message; any other chunk raises ReedSolomonError.
RSCodecDecode(chunk, nsym, sent) ==
    LET msg(w) == SubSeq(w, 1, Len(w) - nsym)
        codeword(w) == Len(w) >= nsym /\ RSCodecEncode(msg(w), nsym) = w
    IN  IF Len(sent) = Len(chunk) /\ codeword(sent) /\ Distance(chunk, sent) <= nsym \div 2
        THEN [err |-> "", data |-> msg(sent)]
        ELSE IF codeword(chunk)
        THEN [err |-> "", data |-> msg(chunk)]
        ELSE [err |-> "ReedSolomonError", data |-> <<>>]

\* The while loop of rs_encode.
\* st = [remaining_data_symbols, remaining_redundant_symbols, encoded_data,
\*       chunks]; chunks lists, for every pass of the loop, the data symbols
\* and redundant symbols of the chunk and where the chunk starts and ends in
\* the encoded buffer (encoded_start, encoded_end).
RECURSIVE RsEncodeLoop(_, _, _)
RsEncodeLoop(d, f, st) ==
    IF ~(st.remaining_data_symbols > 0) THEN st
    ELSE LET max_data_symbols_in_chunk == MaxDataSymbolsInChunk(f)
             data_symbols == Min(st.remaining_data_symbols, max_data_symbols_in_chunk)
             rs_redundant_symbols ==
                 Min(st.remaining_redundant_symbols, RedundantSymbols(f, data_symbols))
             chunk_start == Len(d) - st.remaining_data_symbols
             chunk_end == chunk_start + data_symbols
             data_chunk == Slice(d, chunk_start, chunk_end)
         IN  RsEncodeLoop(d, f,
                 [remaining_data_symbols |-> st.remaining_data_symbols - Len(data_chunk),
                  remaining_redundant_symbols |->
                      st.remaining_redundant_symbols - rs_redundant_symbols,
                  encoded_data |->
                      st.encoded_data \o RSCodecEncode(data_chunk, rs_redundant_symbols),
                  chunks |->
                      Append(st.chunks,
                          [data_symbols |-> Len(data_chunk),
                           rs_redundant_symbols |-> rs_redundant_symbols,
                           encoded_start |-> Len(st.encoded_data),
                           encoded_end |-> Len(st.encoded_data) + Len(data_chunk)
                                               + rs_redundant_symbols])])

\* rs_encode(data, correction_factor), with the final state of its loop
RsEncodeRun(d, f) ==
    LET data_size == Len(d)
        total_redundant_symbols == TotalRedundantSymbols(f, data_size)
        total_symbols == data_size + total_redundant_symbols
        num_chunks == CeilDiv(total_symbols, RS_CHUNK_SIZE)
        start == [remaining_data_symbols |-> data_size,
                  remaining_redundant_symbols |-> total_redundant_symbols,
                  encoded_data |-> <<>>,
                  chunks |-> <<>>]
    IN  IF num_chunks = 0 THEN [start EXCEPT !.encoded_data = d]
        ELSE RsEncodeLoop(d, f, start)

\* rs_encode(data, correction_factor)
rs_encode(d, f) == RsEncodeRun(d, f).encoded_data

\* The while loop of rs_decode; sent is the buffer as rs_encode produced it
\* (the code words the library's decoder corrects towards).
\* st = [remaining_data_symbols, remaining_redundant_symbols, decoded_data, err,
\*       chunks]; chunks as in RsEncodeLoop, for the chunks the loop sliced.
RECURSIVE RsDecodeLoop(_, _, _, _)
RsDecodeLoop(encoded_data, f, sent, st) ==
    IF ~(st.remaining_data_symbols > 0) THEN st
    ELSE LET encoded_data_size == Len(encoded_data)
             max_data_symbols_in_chunk == MaxDataSymbolsInChunk(f)
             data_symbols == Min(st.remaining_data_symbols, max_data_symbols_in_chunk)
             rs_redundant_symbols ==
                 Min(st.remaining_redundant_symbols, RedundantSymbols(f, data_symbols))
             chunk_start == encoded_data_size - st.remaining_data_symbols
                                - st.remaining_redundant_symbols
             chunk_end == chunk_start + data_symbols + rs_redundant_symbols
             encoded_chunk == Slice(encoded_data, chunk_start, chunk_end)
             rest == [st EXCEPT
                         !.remaining_data_symbols = @ - data_symbols,
                         !.remaining_redundant_symbols = @ - rs_redundant_symbols,
                         !.chunks = Append(@,
                             [data_symbols |-> data_symbols,
                              rs_redundant_symbols |-> rs_redundant_symbols,
                              encoded_start |-> chunk_start,
                              encoded_end |-> chunk_end])]
         IN  IF rs_redundant_symbols = 0
             THEN RsDecodeLoop(encoded_data, f, sent,
                      [rest EXCEPT !.decoded_data = @ \o encoded_chunk])
             ELSE LET r == RSCodecDecode(encoded_chunk, rs_redundant_symbols,
                                         Slice(sent, chunk_start, chunk_end))
                  IN  IF r.err # ""
                      THEN [rest EXCEPT !.err = r.err]
                      ELSE RsDecodeLoop(encoded_data, f, sent,
                               [rest EXCEPT
                                   !.decoded_data = @ \o Slice(r.data, 0, data_symbols)])

\* rs_decode(encoded_data, used_correction_factor), with the final state of
\* its loop
RsDecodeRun(encoded_data, f, sent) ==
    LET encoded_data_size == Len(encoded_data)
        remaining_data_symbols == DataSymbolsOf(encoded_data_size, f)
    IN  RsDecodeLoop(encoded_data, f, sent,
            [remaining_data_symbols |-> remaining_data_symbols,
             remaining_redundant_symbols |-> encoded_data_size - remaining_data_symbols,
             decoded_data |-> <<>>,
             err |-> "",
             chunks |-> <<>>])

\* rs_decode(encoded_data, used_correction_factor)
rs_decode(encoded_data, f, sent) ==
    LET st == RsDecodeRun(encoded_data, f, sent)
    IN  IF st.err # "" THEN [err |-> st.err, data |-> <<>>]
        ELSE [err |-> "", data |-> st.decoded_data]

-----------------------------------------------------------------------------
(* Repetitive redundancy and majority voting (Pattern, redundancy part) *)

\* calculate_byte_distance(candidate_byte, neighbors)
RECURSIVE calculate_byte_distance(_, _)
calculate_byte_distance(candidate_byte, neighbors) ==
    IF Len(neighbors) = 0 THEN 0
    ELSE LET n == neighbors[1]
         IN  (IF candidate_byte >= n THEN candidate_byte - n ELSE n - candidate_byte)
             + calculate_byte_distance(candidate_byte, Tail(neighbors))

\* CPython's set of small non-negative integers, as its 8-slot hash table
\* (which holds up to 4 keys before it is resized): a key v is stored at the
\* first free slot of the probe sequence v & 7, (5 * i + 1 + perturb) & 7 and
\* iteration follows the slots.  table[i] = -1 marks a free slot.
RECURSIVE SetProbe(_, _, _, _)
SetProbe(table, v, i, perturb) ==
    IF table[i] = -1 THEN [table EXCEPT ![i] = v]
    ELSE IF table[i] = v THEN table
    ELSE SetProbe(table, v, (5 * i + 1 + (perturb \div 32)) % 8, perturb \div 32)

RECURSIVE SetTable(_, _)
SetTable(group, table) ==
    IF Len(group) = 0 THEN table
    ELSE SetTable(Tail(group), SetProbe(table, group[1], group[1] % 8, group[1]))

RECURSIVE SlotsInOrder(_, _)
SlotsInOrder(table, i) ==
    IF i > 7 THEN <<>>
    ELSE (IF table[i] = -1 THEN <<>> ELSE <<table[i]>>) \o SlotsInOrder(table, i + 1)

\* list(set(group)): the distinct bytes of group in set iteration order
PySetOrder(group) == SlotsInOrder(SetTable(group, [i \in 0..7 |-> -1]), 0)

\* group.count(byte)
Count(group, byte) == Cardinality({i \in DOMAIN group : group[i] = byte})

\* max(byte_counts.values())
MaxCount(group) ==
    CHOOSE m \in {Count(group, group[i]) : i \in DOMAIN group} :
        \A i \in DOMAIN group : Count(group, group[i]) <= m

\* [byte for byte, count in byte_counts.items() if count == max_count]
Candidates(group) ==
    LET order == PySetOrder(group)
        F[i \in 0..Len(order)] ==
            IF i = 0 THEN <<>>
            ELSE IF Count(group, order[i]) = MaxCount(group)
                 THEN Append(F[i - 1], order[i]) ELSE F[i - 1]
    IN  F[Len(order)]

\* Pattern.get_redundancy_neighbors
get_redundancy_neighbors(index, reconstructed_data, input_data, repetitive_redundancy) ==
    LET previous ==
            IF index > 0 THEN <<reconstructed_data[index]>> ELSE <<>>
        next_neighbor_group ==
            Slice(input_data, (index + 1) * repetitive_redundancy,
                  (index + 2) * repetitive_redundancy)
        majority_bytes == Candidates(next_neighbor_group)
    IN  IF index < (Len(input_data) \div repetitive_redundancy) - 1
        THEN IF Len(majority_bytes) = 1 THEN previous \o majority_bytes ELSE previous
        ELSE previous

\* min(neighbor_similarity, key=neighbor_similarity.get): the first candidate,
\* in dictionary order, of minimal distance
FirstMinimal(candidates, neighbors) ==
    LET dist(i) == calculate_byte_distance(candidates[i], neighbors)
        best == CHOOSE i \in DOMAIN candidates :
                    /\ \A j \in DOMAIN candidates : dist(i) <= dist(j)
                    /\ \A j \in 1..(i - 1) : dist(j) > dist(i)
    IN  candidates[best]

\* the vote of one group, given what is reconstructed so far
MajorityByte(group, reconstructed_data, input_data, repetitive_redundancy) ==
    LET candidates == Candidates(group)
    IN  IF Len(candidates) = 1 THEN candidates[1]
        ELSE FirstMinimal(candidates,
                 get_redundancy_neighbors(Len(reconstructed_data), reconstructed_data,
                                          input_data, repetitive_redundancy))

\* for i in range(0, len(data), repetitive_redundancy): ... (the voting loop)
RECURSIVE ReconstructLoop(_, _, _, _)
ReconstructLoop(d, i, repetitive_redundancy, reconstructed_data) ==
    IF i >= Len(d) THEN reconstructed_data
    ELSE ReconstructLoop(d, i + repetitive_redundancy, repetitive_redundancy,
             Append(reconstructed_data,
                    MajorityByte(Slice(d, i, i + repetitive_redundancy),
                                 reconstructed_data, d, repetitive_redundancy)))

\* bytes(chain.from_iterable(zip(*[data[i:i + chunk_size]
\*                                 for i in range(0, len(data), chunk_size)])))
\* zip stops at the shortest slice
BlockTranspose(d, chunk_size) ==
    LET slices == CeilDiv(Len(d), chunk_size)
        shortest == IF Len(d) % chunk_size = 0 THEN chunk_size ELSE Len(d) % chunk_size
    IN  [x \in 1..(shortest * slices) |->
            d[((x - 1) % slices) * chunk_size + ((x - 1) \div slices) + 1]]

\* Pattern.static_apply_redundancy
static_apply_redundancy(d, repetitive_redundancy, repetitive_redundancy_mode, advanced_redundancy, advanced_redundancy_correction_factor) ==
    Value({
        IF advanced.err # "" THEN advanced
        ELSE IF repetitive_redundancy > 1
        THEN CASE repetitive_redundancy_mode = "byte_per_byte" ->
                      [err |-> "",
                       data |-> [x \in 1..(Len(advanced.data) * repetitive_redundancy) |->
                                    advanced.data[((x - 1) \div repetitive_redundancy) + 1]]]
               [] repetitive_redundancy_mode = "block" ->
                      [err |-> "",
                       data |-> [x \in 1..(Len(advanced.data) * repetitive_redundancy) |->
                                    advanced.data[((x - 1) % Len(advanced.data)) + 1]]]
               [] OTHER -> [err |-> "ValueError", data |-> <<>>]
        ELSE advanced :
        advanced \in {
            CASE advanced_redundancy \in {"reed_solomon", "rs"} ->
                     [err |-> "", data |-> rs_encode(d, advanced_redundancy_correction_factor)]
              [] advanced_redundancy \in {"hamming", "ham"} ->
                     [err |-> "NotImplementedError", data |-> <<>>]
              [] advanced_redundancy \in {"none", "no"} ->
                     [err |-> "", data |-> d]
              [] OTHER -> [err |-> "ValueError", data |-> <<>>]}})

\* Pattern.static_reconstruct_redundancy; sent is the buffer as rs_encode
\* produced it on the encoding side (see RSCodecDecode)
static_reconstruct_redundancy(d, repetitive_redundancy, repetitive_redundancy_mode, advanced_redundancy, advanced_redundancy_correction_factor, sent) ==
    Value({
        IF voted.err # "" THEN voted
        ELSE CASE advanced_redundancy \in {"reed_solomon", "rs"} ->
                      rs_decode(voted.data, advanced_redundancy_correction_factor, sent)
               [] advanced_redundancy \in {"hamming", "ham"} ->
                      [err |-> "NotImplementedError", data |-> <<>>]
               [] advanced_redundancy \in {"none", "no"} -> voted
               [] OTHER -> [err |-> "ValueError", data |-> <<>>] :
        voted \in {
            IF repetitive_redundancy > 1
            THEN CASE repetitive_redundancy_mode = "byte_per_byte" ->
                          [err |-> "",
                           data |-> ReconstructLoop(d, 0, repetitive_redundancy, <<>>)]
                   [] repetitive_redundancy_mode = "block" ->
                          IF Len(d) \div repetitive_redundancy = 0
                          THEN [err |-> "ValueError", data |-> <<>>]   \* range() arg 3 is zero
                          ELSE [err |-> "",
                                data |-> ReconstructLoop(
                                             BlockTranspose(d, Len(d) \div repetitive_redundancy),
                                             0, repetitive_redundancy, <<>>)]
                   [] OTHER -> [err |-> "ValueError", data |-> <<>>]
            ELSE [err |-> "", data |-> d]}})

-----------------------------------------------------------------------------
(* Python values of the Pattern options                                    *)
(*                                                                         *)
(* A channel string is a sequence of letters; the other string options are *)
(* TLA+ strings.  hash_check, which the code lets be a bool or a string,   *)
(* is one of the strings "True", "False" (the bools) or an algorithm name. *)

STR_ALL == <<"a", "l", "l">>
STR_AUTO == <<"a", "u", "t", "o">>
STR_EMPTY == <<>>
\* the value None given for a string option
NONE == <<"None">>

UpperCase ==
    [c \in {"r", "g", "b", "a", "l", "u", "t", "o"} |->
        CASE c = "r" -> "R" [] c = "g" -> "G" [] c = "b" -> "B" [] c = "a" -> "A"
          [] c = "l" -> "L" [] c = "u" -> "U" [] c = "t" -> "T" [] c = "o" -> "O"]

\* str.upper() and str.lower() of a channel string
Upper(str) == [i \in DOMAIN str |-> IF str[i] \in DOMAIN UpperCase THEN UpperCase[str[i]] ELSE str[i]]
Lower(str) ==
    [i \in DOMAIN str |->
        IF \E c \in DOMAIN UpperCase : UpperCase[c] = str[i]
        THEN CHOOSE c \in DOMAIN UpperCase : UpperCase[c] = str[i]
        ELSE str[i]]

\* the truth value Python gives a hash_check / compression option
Truthy(v) == v \notin {"False", "None", ""}

\* kwargs.get(key, default)
Get(kwargs, key, default) == IF key \in DOMAIN kwargs THEN kwargs[key] ELSE default

-----------------------------------------------------------------------------
(* Pattern: construction and resolution *)

\* Pattern.__init__(**kwargs)
PatternInit(kwargs) ==
    [offset |-> Get(kwargs, "offset", 0),
     channels |-> Get(kwargs, "channels", <<"R", "G", "B", "A">>),
     bit_frequency |-> Get(kwargs, "bit_frequency", 1),
     byte_spacing |-> Get(kwargs, "byte_spacing", 1),
     hash_check |-> Get(kwargs, "hash_check", "sha256"),
     compression |-> Get(kwargs, "compression_pattern", "none"),
     compression_strength |-> Get(kwargs, "compression_strength", 6),
     advanced_redundancy |-> Get(kwargs, "advanced_redundancy", "reed_solomon"),
     advanced_redundancy_correction_factor |->
         Get(kwargs, "advanced_redundancy_correction_factor", [num |-> 1, den |-> 10]),
     repetitive_redundancy |-> Get(kwargs, "repetitive_redundancy", 1),
     repetitive_redundancy_mode |-> Get(kwargs, "repetitive_redundancy_mode", "byte_per_byte"),
     header_enabled |-> Get(kwargs, "header_enabled", TRUE),
     header_write_data_size |-> Get(kwargs, "header_write_data_size", TRUE),
     header_write_pattern |-> Get(kwargs, "header_write_pattern", FALSE),
     header_channels |-> Get(kwargs, "header_channels", STR_AUTO),
     header_position |-> Get(kwargs, "header_position", "auto"),
     header_bit_frequency |-> Get(kwargs, "header_bit_frequency", 1),
     header_byte_spacing |-> Get(kwargs, "header_byte_spacing", 1),
     header_repetitive_redundancy |-> Get(kwargs, "header_repetitive_redundancy", 5),
     header_advanced_redundancy |-> Get(kwargs, "header_advanced_redundancy", "reed_solomon"),
     header_advanced_redundancy_correction_factor |->
         Get(kwargs, "header_advanced_redundancy_correction_factor", [num |-> 1, den |-> 10])]

\* str.lower().strip() of a header_position string
NormalPosition(v) ==
    CASE v = "IMAGE_START" -> "image_start"
      [] v = " before_data " -> "before_data"
      [] v = "AUTO" -> "auto"
      [] OTHER -> v

\* all(channel in image_channels for channel in channels)
AllIn(channels, image_channels) == \A i \in DOMAIN channels : In(channels[i], image_channels)

NoPatternData == [position |-> 0]

\* Pattern.generate_pattern(image_channels): the resolved dictionary d, the
\* exception raised (err) and the Pattern object as the call leaves it (self:
\* the call stores the lower-cased channel strings back into the object).
generate_pattern(self, image_mode) ==
    LET image_channels == Upper(image_mode)
        self1 == [self EXCEPT !.channels = Lower(@)]
        channels ==
            IF self1.channels = STR_ALL \/ self1.channels = STR_EMPTY THEN image_channels
            ELSE IF self1.channels = STR_AUTO THEN image_channels
            ELSE Upper(self1.channels)
        self2 == [self1 EXCEPT !.header_channels = Lower(@)]
        header_channels ==
            IF self2.header_channels = STR_AUTO
            THEN IF /\ self2.header_enabled
                    /\ self2.header_write_data_size
                    /\ (self2.header_write_pattern \/ self2.header_position = "image_start")
                 THEN IF In("A", image_channels) THEN <<"A">>
                      ELSE IF In("B", image_channels) THEN <<"B">>
                      ELSE <<image_channels[1]>>
                 ELSE image_channels
            ELSE IF self2.header_channels = STR_ALL \/ self2.header_channels = STR_EMPTY
            THEN image_channels
            ELSE Upper(self2.header_channels)
        header_position ==
            IF NormalPosition(self2.header_position) = "auto"
            THEN IF /\ self2.header_enabled
                    /\ self2.header_write_data_size
                    /\ self2.header_write_pattern
                 THEN "image_start" ELSE "before_data"
            ELSE NormalPosition(self2.header_position)
    IN  IF Len(image_channels) = 0
        THEN [err |-> "ValueError", self |-> self, d |-> NoPatternData]
        ELSE IF self.channels = NONE                               \* None.lower()
        THEN [err |-> "AttributeError", self |-> self, d |-> NoPatternData]
        ELSE IF ~AllIn(channels, image_channels)
        THEN [err |-> "ValueError", self |-> self1, d |-> NoPatternData]
        ELSE IF self1.header_channels = NONE                       \* None.lower()
        THEN [err |-> "AttributeError", self |-> self1, d |-> NoPatternData]
        ELSE IF ~AllIn(header_channels, image_channels)
        THEN [err |-> "ValueError", self |-> self2, d |-> NoPatternData]
        ELSE [err |-> "",
              self |-> self2,
              d |-> [position |-> self2.offset,
                     channels |-> channels,
                     bit_frequency |-> self2.bit_frequency,
                     byte_spacing |-> self2.byte_spacing,
                     hash_check |-> self2.hash_check,
                     compression_enabled |->
                         Truthy(self2.compression) /\ self2.compression # "none",
                     compression |-> self2.compression,
                     compression_strength |-> self2.compression_strength,
                     advanced_redundancy |-> self2.advanced_redundancy,
                     advanced_redundancy_correction_factor |->
                         self2.advanced_redundancy_correction_factor,
                     repetitive_redundancy |-> self2.repetitive_redundancy,
                     repetitive_redundancy_mode |-> self2.repetitive_redundancy_mode,
                     header_enabled |-> self2.header_enabled,
                     header_write_data_size |-> self2.header_write_data_size,
                     header_write_pattern |-> self2.header_write_pattern,
                     header_channels |-> header_channels,
                     header_position |-> header_position,
                     header_bit_frequency |-> self2.header_bit_frequency,
                     header_byte_spacing |-> self2.header_byte_spacing,
                     header_repetitive_redundancy |-> self2.header_repetitive_redundancy,
                     header_advanced_redundancy |-> self2.header_advanced_redundancy,
                     header_advanced_redundancy_correction_factor |->
                         self2.header_advanced_redundancy_correction_factor]]

\* Pattern.apply_redundancy(data, parameters_source)
apply_redundancy(self, d, parameters_source) ==
    IF parameters_source = "header"
    THEN static_apply_redundancy(d, self.header_repetitive_redundancy, "byte_per_byte",
             self.header_advanced_redundancy,
             self.header_advanced_redundancy_correction_factor)
    ELSE static_apply_redundancy(d, self.repetitive_redundancy,
             self.repetitive_redundancy_mode, self.advanced_redundancy,
             self.advanced_redundancy_correction_factor)

\* Pattern.reconstruct_redundancy(data, parameters_source)
reconstruct_redundancy(self, d, parameters_source, sent) ==
    IF parameters_source = "header"
    THEN static_reconstruct_redundancy(d, self.header_repetitive_redundancy, "byte_per_byte",
             self.header_advanced_redundancy,
             self.header_advanced_redundancy_correction_factor, sent)
    ELSE static_reconstruct_redundancy(d, self.repetitive_redundancy,
             self.repetitive_redundancy_mode, self.advanced_redundancy,
             self.advanced_redundancy_correction_factor, sent)

\* data_len.to_bytes(4, "big")
to_bytes_4(n) == <<(n \div 16777216) % 256, (n \div 65536) % 256, (n \div 256) % 256, n % 256>>

\* Lengths from LengthCap on are not told apart: each exceeds the bits of any
\* raster of the scenarios, and decode_data treats all such lengths alike.
LengthCap == 16777216

\* int.from_bytes(b, "big") of at most 4 bytes, up to LengthCap
RECURSIVE from_bytes(_)
from_bytes(b) ==
    IF Len(b) = 0 THEN 0
    ELSE IF Len(b) = 4 /\ b[1] > 0 THEN LengthCap
    ELSE 256 * from_bytes(SubSeq(b, 1, Len(b) - 1)) + b[Len(b)]

\* the header of generate_header before redundancy: the 4-byte length, if
\* written, and the pattern flag
HeaderFields(self, data_len) ==
    (IF self.header_write_data_size THEN to_bytes_4(data_len) ELSE <<>>)
    \o (IF self.header_write_pattern THEN <<1>> ELSE <<0>>)

\* Pattern.generate_header(data_len)
generate_header(self, data_len) ==
    IF ~self.header_enabled \/ ~(self.header_write_data_size \/ self.header_write_pattern)
    THEN [err |-> "", data |-> <<>>]
    ELSE Value({apply_redundancy(self, header, "header") :
                header \in {HeaderFields(self, data_len)}})

-----------------------------------------------------------------------------
(* Pattern: hashing, compression, capacity *)

\* hashlib.algorithms_available (the algorithms the scenarios name)
AlgorithmsAvailable == {"md5", "sha1", "sha256", "sha512"}

\* the digest size of an algorithm, in bytes
DigestSize(hash_algorithm) ==
    CASE hash_algorithm = "md5" -> 16
      [] hash_algorithm = "sha1" -> 20
      [] hash_algorithm = "sha256" -> 32
      [] hash_algorithm = "sha512" -> 64

\* hashlib.new(hash_algorithm, data).digest(): DigestSize bytes, a function of
\* the algorithm and of every byte of the data and its position.
Digest(hash_algorithm, d) ==
    LET a == WeightedSum(d, 0, 1, Len(d))
        b == WeightedSum(d, 1, 1, Len(d))
        c == WeightedSum(d, 5, 1, Len(d))
        n == DigestSize(hash_algorithm)
    IN  [j \in 1..n |-> (a * (j + 2) + b * (2 * j + 1) + c * j * j + 13 * j + 29 * Len(d) + n) % 256]

\* str.lower() of a hash_check string
LowerName(v) ==
    CASE v = "SHA256" -> "sha256"
      [] v = "NONE" -> "none"
      [] OTHER -> v

\* Pattern.compute_hash(data)
compute_hash(self, d) ==
    IF ~Truthy(self.hash_check)
    THEN [err |-> "ValueError", data |-> <<>>]
    ELSE LET hash_algorithm ==
                 IF self.hash_check = "True" THEN "sha256" ELSE LowerName(self.hash_check)
         IN  IF hash_algorithm = "none" THEN [err |-> "ValueError", data |-> <<>>]
             ELSE IF hash_algorithm \notin AlgorithmsAvailable
             THEN [err |-> "ValueError", data |-> <<>>]
             ELSE [err |-> "", data |-> Digest(hash_algorithm, d)]

\* The runs of equal bytes of d as (count, byte) pairs, counts at most 255.
RECURSIVE Runs(_, _, _)
Runs(d, i, acc) ==
    IF i > Len(d) THEN acc
    ELSE IF Len(acc) > 0 /\ acc[Len(acc)] = d[i] /\ acc[Len(acc) - 1] < 255
    THEN Runs(d, i + 1, [acc EXCEPT ![Len(acc) - 1] = @ + 1])
    ELSE Runs(d, i + 1, acc \o <<1, d[i]>>)

RECURSIVE Unruns(_, _)
Unruns(z, i) ==
    IF i + 1 > Len(z) THEN <<>>
    ELSE [j \in 1..z[i] |-> z[i + 1]] \o Unruns(z, i + 2)

\* the 4 trailing checksum bytes of a zlib stream
Adler(d) ==
    LET a == (1 + WeightedSum(d, 0, 1, Len(d))) % 65521
        b == (Len(d) + WeightedSum(d, 1, 1, Len(d))) % 65521
    IN  <<b \div 256, b % 256, a \div 256, a % 256>>

\* zlib.compress(data, level): a 2-byte stream header, the deflated body, a
\* block terminator and the 4-byte checksum.  The body is a run-length code,
\* which, like deflate, shortens repetitive input and lengthens short input.
zlib_compress(d, level) ==
    IF level = 0
    THEN <<120, 1>> \o <<1, Len(d) % 256, Len(d) \div 256>> \o d \o <<0, 0>> \o Adler(d)
    ELSE <<120, 156>> \o Runs(d, 1, <<>>) \o <<0, 0>> \o Adler(d)

\* zlib.decompress(data)
zlib_decompress(z) ==
    LET body == IF Len(z) >= 8 /\ z[2] = 1 THEN Slice(z, 5, Len(z) - 6)
                ELSE Unruns(Slice(z, 2, Len(z) - 6), 1)
    IN  IF Len(z) >= 8 /\ z[1] = 120 /\ z[2] \in {1, 156}
           /\ zlib_compress(body, IF z[2] = 1 THEN 0 ELSE 6) = z
        THEN [err |-> "", data |-> body]
        ELSE [err |-> "zlib.error", data |-> <<>>]

\* the bytes b'0' and b'1'
FLAG_0 == <<48>>
FLAG_1 == <<49>>

\* Pattern.static_compress_data(data, compression, compression_strength)
static_compress_data(d, compression, compression_strength) ==
    IF Truthy(compression) /\ compression # "none"
    THEN IF compression = "zlib"
         THEN LET new_data == zlib_compress(d, compression_strength)
              IN  IF Len(new_data) < Len(d)
                  THEN [err |-> "", data |-> FLAG_1 \o new_data]
                  ELSE [err |-> "", data |-> FLAG_0 \o d]
         ELSE [err |-> "CompressionNotImplementedError", data |-> <<>>]
    ELSE [err |-> "", data |-> d]

\* Python's compression_flag == b'1', with compression_flag = data[0] an int:
\* an int never equals a bytes object.
IntEqualsBytes(compression_flag, b) == FALSE

\* Pattern.static_decompress_data(data, compression)
static_decompress_data(d, compression) ==
    IF Truthy(compression) /\ compression # "none"
    THEN IF compression = "zlib"
         THEN IF Len(d) = 0 THEN [err |-> "IndexError", data |-> <<>>]   \* data[0]
              ELSE IF IntEqualsBytes(d[1], FLAG_1) THEN zlib_decompress(d)
              ELSE [err |-> "", data |-> d]
         ELSE [err |-> "NotImplementedError", data |-> <<>>]
    ELSE [err |-> "", data |-> d]

\* Pattern.calculate_max_data_size(image_size, image_mode), with image_size
\* given as its pixel count width * height
calculate_max_data_size(self, pixel_count, image_mode) ==
    LET g == generate_pattern(self, image_mode)
        Available(channel) == In(channel, image_mode)
        available_channels == SelectSeq(g.d.channels, Available)
        bits_per_pixel == Len(available_channels) * self.bit_frequency
        bits_per_byte == 8 * self.byte_spacing
        raw_data_bytes == (pixel_count * bits_per_pixel) \div bits_per_byte
        rs_redundant_symbols ==
            IF self.advanced_redundancy = "reed_solomon"
            THEN RedundantSymbols(self.advanced_redundancy_correction_factor, raw_data_bytes)
            ELSE 0
        left == raw_data_bytes - rs_redundant_symbols
    IN  IF g.err # "" THEN [err |-> g.err, size |-> 0]
        ELSE [err |-> "",
              size |-> IF self.repetitive_redundancy > 1
                          /\ self.repetitive_redundancy_mode \in {"byte_per_byte", "block"}
                       THEN left \div self.repetitive_redundancy
                       ELSE left]

\* utils.ranges_overlap(a, b, c, d)
ranges_overlap(a, b, c, d) ==
    \/ (c <= a /\ a <= d) \/ (c <= b /\ b <= d)
    \/ (a <= c /\ c <= b) \/ (a <= d /\ d <= b)

-----------------------------------------------------------------------------
(* The orchestrators: Encoder.apply_pattern and Decoder.extract_data *)

NoEncoding ==
    [err |-> "", pixels |-> <<>>, self |-> [offset |-> 0], data |-> <<>>, header |-> <<>>,
     coded |-> <<>>, header_coded |-> <<>>,
     header_position |-> 0, header_added_offset |-> 0, data_position |-> 0,
     data_added_offset |-> 0, max_size |-> 0]

\* Encoder._validate_data_after_pattern_applied(data)
ValidateDataAfterPatternApplied(self, pxs, image_mode, d) ==
    Value({[err |-> m.err, ok |-> Len(d) <= m.size, max_size |-> m.size] :
           m \in {calculate_max_data_size(self, Len(pxs), image_mode)}})

\* an apply_pattern call that raised e
EncodingFailed(self, e) == [NoEncoding EXCEPT !.err = e, !.self = self]

\* apply_pattern, the return: the raster of the payload's encode_data call e,
\* with the locals of the call
ApplyReturn(self, d3, coded, max_size, header, header_coded, header_position, h, data_position, e) ==
    [err |-> "",
     pixels |-> e.pixels,
     self |-> self,
     data |-> d3,
     header |-> header,
     coded |-> coded,
     header_coded |-> header_coded,
     header_position |-> header_position,
     header_added_offset |-> h.span,
     data_position |-> data_position,
     data_added_offset |-> e.span,
     max_size |-> max_size]

\* apply_pattern, the payload write: h is the result of the header's
\* encode_data call (the input raster and 0 when no header was written)
ApplyEncodeData(self, pd, image_mode, d3, coded, max_size, header, header_coded, header_position, h) ==
    Value({Value({ApplyReturn(self, d3, coded, max_size, header, header_coded,
                     header_position, h, data_position, e) :
           e \in {encode_data(image_mode, h.pixels, d3, pd.channels, pd.bit_frequency,
                      pd.byte_spacing, data_position)}}) :
           data_position \in {
               IF Len(header) > 0
               THEN IF pd.header_position = "image_start"
                       /\ ~ranges_overlap(0, h.span, pd.position, pd.position)
                    THEN pd.position
                    ELSE pd.position + h.span
               ELSE pd.position}})

\* apply_pattern, the header write
ApplyEncodeHeader(self, pd, image_mode, pxs, d3, coded, max_size, header, header_coded) ==
    Value({Value({ApplyEncodeData(self, pd, image_mode, d3, coded, max_size, header,
                     header_coded, header_position, h) :
           h \in {IF Len(header) > 0
                  THEN encode_data(image_mode, pxs, header, pd.header_channels,
                           pd.header_bit_frequency, pd.header_byte_spacing, header_position)
                  ELSE [pixels |-> pxs, span |-> 0]}}) :
           header_position \in {
               IF pd.header_position = "image_start" THEN 0
               ELSE IF pd.header_position = "before_data" THEN pd.position
               ELSE 0}})

\* apply_pattern, the header generation; header_coded is the header as
\* rs_encode made it inside generate_header
ApplyHeader(self, pd, image_mode, pxs, d3, coded, max_size) ==
    Value({Value({
           IF header.err # "" THEN EncodingFailed(self, header.err)
           ELSE ApplyEncodeHeader(self, pd, image_mode, pxs, d3, coded, max_size, header.data,
                    header_coded) :
           header_coded \in {
               IF self.header_advanced_redundancy \in {"reed_solomon", "rs"}
               THEN rs_encode(HeaderFields(self, Len(d3)),
                        self.header_advanced_redundancy_correction_factor)
               ELSE HeaderFields(self, Len(d3))}}) :
           header \in {
               IF pd.header_enabled /\ (pd.header_write_data_size \/ pd.header_write_pattern)
               THEN generate_header(self, Len(d3))
               ELSE [err |-> "", data |-> <<>>]}})

\* apply_pattern, the capacity check
ApplyValidate(self, pd, image_mode, pxs, d3, coded) ==
    Value({IF valid.err # "" THEN EncodingFailed(self, valid.err)
           ELSE IF ~valid.ok
           THEN [EncodingFailed(self, "ValueError") EXCEPT !.max_size = valid.max_size]
           ELSE ApplyHeader(self, pd, image_mode, pxs, d3, coded, valid.max_size) :
           valid \in {ValidateDataAfterPatternApplied(self, pxs, image_mode, d3)}})

\* apply_pattern, the redundancy step; coded is the buffer as rs_encode made
\* it inside apply_redundancy
ApplyRedundancy(self, pd, image_mode, pxs, d2) ==
    Value({Value({
           IF redundant.err # "" THEN EncodingFailed(self, redundant.err)
           ELSE ApplyValidate(self, pd, image_mode, pxs, redundant.data, coded) :
           coded \in {IF self.advanced_redundancy \in {"reed_solomon", "rs"}
                      THEN rs_encode(d2, self.advanced_redundancy_correction_factor)
                      ELSE d2}}) :
           redundant \in {apply_redundancy(self, d2, "data")}})

\* apply_pattern, the compression step
ApplyCompression(self, pd, image_mode, pxs, d1) ==
    Value({IF compressed.err # "" THEN EncodingFailed(self, compressed.err)
           ELSE ApplyRedundancy(self, pd, image_mode, pxs, compressed.data) :
           compressed \in {
               IF pd.compression_enabled
               THEN static_compress_data(d1, self.compression, self.compression_strength)
               ELSE [err |-> "", data |-> d1]}})

\* an apply_pattern that compresses first and appends the digest of the
\* compressed buffer: the order the pipeline excludes
ApplyHashOfCompressed(self, pd, image_mode, pxs, d) ==
    Value({IF compressed.err # "" THEN EncodingFailed(self, compressed.err)
           ELSE Value({IF hashed.err # "" THEN EncodingFailed(self, hashed.err)
                       ELSE ApplyRedundancy(self, pd, image_mode, pxs,
                                compressed.data \o hashed.data) :
                       hashed \in {IF Truthy(pd.hash_check)
                                   THEN compute_hash(self, compressed.data)
                                   ELSE [err |-> "", data |-> <<>>]}}) :
           compressed \in {
               IF pd.compression_enabled
               THEN static_compress_data(d, self.compression, self.compression_strength)
               ELSE [err |-> "", data |-> d]}})

\* apply_pattern, the hash step
ApplyHash(self, pd, image_mode, pxs, d) ==
    Value({IF hashed.err # "" THEN EncodingFailed(self, hashed.err)
           ELSE Value({ApplyCompression(self, pd, image_mode, pxs, d1) :
                       d1 \in {d \o hashed.data}}) :
           hashed \in {IF Truthy(pd.hash_check) THEN compute_hash(self, d)
                       ELSE [err |-> "", data |-> <<>>]}})

\* Encoder.apply_pattern(pixels, data) for an image of layout image_mode.
\* The result carries the exception (err), the raster returned (pixels), the
\* Pattern object as the call leaves it (self) and the locals of the call:
\* data (after hash, compression, redundancy), header, header_position,
\* header_added_offset, data_position (the offset of the payload write) and
\* data_added_offset (the second value of the payload's encode_data call);
\* coded / header_coded are the buffers as rs_encode made them.
apply_pattern(self0, image_mode, pxs, d) ==
    Value({IF g.err # "" THEN EncodingFailed(g.self, g.err)
           ELSE Value({ApplyHash(self, pd, image_mode, pxs, d) :
                       self \in {g.self}, pd \in {g.d}}) :
           g \in {generate_pattern(self0, image_mode)}})

\* the argument value None of extract_data's data_length
None == -1

\* the locals of an extract_data call before it sets any: data_bytes is the
\* buffer after redundancy reconstruction and decompression, and reached_check
\* says that the call came to the integrity check with it; header_size is
\* len(generate_header(0)) and header_span the second value the header's
\* decode_data call returned
NoExtraction ==
    [err |-> "", data |-> <<>>, self |-> [offset |-> 0], header_data |-> <<>>,
     data_length |-> 0, header_position |-> 0, header_offset_size |-> 0,
     data_position |-> 0, data_bytes |-> <<>>, reached_check |-> FALSE,
     header_size |-> 0, header_span |-> 0]

\* an extract_data call that raised e, with the locals loc it had set
ExtractionFailed(loc, e) == [loc EXCEPT !.err = e]

\* the size every digest is taken to have when extract_data splits it off
SPLIT_SIZE == 32

\* an extract_data that splits the digest off without comparing it: the
\* behaviour the integrity check excludes
ExtractWithoutComparison(self, pd, loc, dz) ==
    IF Truthy(pd.hash_check)
    THEN [loc EXCEPT !.data = Slice(dz, 0, Len(dz) - SPLIT_SIZE)]
    ELSE [loc EXCEPT !.data = dz]

\* extract_data, the integrity check of the buffer dz
ExtractVerify(self, pd, loc, dz) ==
    IF Truthy(pd.hash_check)
    THEN Value({IF hashed.err # "" THEN ExtractionFailed(loc, hashed.err)
                ELSE IF hashed.data # data_hash
                THEN ExtractionFailed(loc, "DataIntegrityCheckFailedError")
                ELSE [loc EXCEPT !.data = data_bytes] :
                data_hash \in {Slice(dz, Max(Len(dz) - SPLIT_SIZE, 0), Len(dz))},
                data_bytes \in {Slice(dz, 0, Len(dz) - SPLIT_SIZE)},
                hashed \in {compute_hash(self, Slice(dz, 0, Len(dz) - SPLIT_SIZE))}})
    ELSE [loc EXCEPT !.data = dz]

\* extract_data, the decompression of the reconstructed buffer dr
ExtractDecompress(self, pd, loc, dr) ==
    IF dr.err # "" THEN ExtractionFailed(loc, dr.err)
    ELSE Value({IF dz.err # "" THEN ExtractionFailed(loc, dz.err)
                ELSE ExtractVerify(self, pd,
                         [loc EXCEPT !.data_bytes = dz.data, !.reached_check = TRUE],
                         dz.data) :
                dz \in {IF pd.compression_enabled
                        THEN static_decompress_data(dr.data, self.compression)
                        ELSE [err |-> "", data |-> dr.data]}})

\* extract_data, the payload read at position + header_offset_size
ExtractData(self, pd, image_mode, pxs, data_length, data_sent, loc) ==
    IF data_length = None THEN ExtractionFailed(loc, "TypeError")   \* None * 8
    ELSE Value({IF dd.err # "" THEN ExtractionFailed(loc, dd.err)
                ELSE Value({ExtractDecompress(self, pd, loc, dr) :
                            dr \in {reconstruct_redundancy(self, dd.data, "data", data_sent)}}) :
                dd \in {decode_data(image_mode, pxs, data_length, pd.channels,
                            pd.bit_frequency, pd.byte_spacing, loc.data_position)}})

\* extract_data, the header fields: hr is the reconstructed header and span
\* the second value of the header's decode_data call
ExtractHeaderFields(self, pd, image_mode, pxs, data_length0, enforce_provided_pattern, data_sent, header_position, span, hr) ==
    IF hr.err # "" THEN ExtractionFailed([NoExtraction EXCEPT !.self = self], hr.err)
    ELSE IF Len(hr.data) < 5                                       \* header_data[4]
    THEN ExtractionFailed([NoExtraction EXCEPT !.self = self], "IndexError")
    ELSE Value({Value({ExtractData(self, pd, image_mode, pxs, data_length, data_sent, loc) :
                loc \in {[NoExtraction EXCEPT
                             !.self = self,
                             !.header_data = hr.data,
                             !.data_length = data_length,
                             !.header_position = header_position,
                             !.header_offset_size = header_offset_size,
                             !.header_size = Len(generate_header(self, 0).data),
                             !.header_span = span,
                             !.data_position = pd.position + header_offset_size]}}) :
                data_length \in {
                    IF (data_length0 = None \/ data_length0 = 0) \/ ~enforce_provided_pattern
                    THEN from_bytes(Slice(hr.data, 0, 4))
                    ELSE data_length0},
                header_offset_size \in {
                    IF pd.header_position = "image_start"
                       /\ ~ranges_overlap(0, span, pd.position, pd.position)
                    THEN 0
                    ELSE span}})

\* extract_data, the header read
ExtractHeader(self, pd, image_mode, pxs, data_length0, enforce_provided_pattern, header_sent, data_sent) ==
    Value({
        IF header0.err # ""
        THEN ExtractionFailed([NoExtraction EXCEPT !.self = self], header0.err)
        ELSE Value({
            IF hd.err # "" THEN ExtractionFailed([NoExtraction EXCEPT !.self = self], hd.err)
            ELSE Value({ExtractHeaderFields(self, pd, image_mode, pxs, data_length0,
                            enforce_provided_pattern, data_sent, header_position, hd.span, hr) :
                        hr \in {reconstruct_redundancy(self, hd.data, "header", header_sent)}}) :
            hd \in {decode_data(image_mode, pxs, Len(header0.data), pd.header_channels,
                        pd.header_bit_frequency, pd.header_byte_spacing, header_position)}}) :
        header0 \in {generate_header(self, 0)},
        header_position \in {
            IF pd.header_position = "image_start" THEN 0
            ELSE IF pd.header_position = "before_data" THEN pd.position
            ELSE 0}})

\* Decoder.extract_data(pixels, data_length, enforce_provided_pattern) for an
\* image of layout image_mode; header_sent and data_sent are the buffers the
\* encoder's rs_encode produced (the code words the library corrects towards).
\* The result carries the exception, the bytes returned, the Pattern object
\* as the call leaves it and the locals of the call.
extract_data(self0, image_mode, pxs, data_length0, enforce_provided_pattern, header_sent, data_sent) ==
    Value({
        IF g.err # "" THEN ExtractionFailed([NoExtraction EXCEPT !.self = g.self], g.err)
        ELSE Value({
            IF pd.header_enabled
            THEN ExtractHeader(self, pd, image_mode, pxs, data_length0,
                     enforce_provided_pattern, header_sent, data_sent)
            ELSE Value({ExtractData(self, pd, image_mode, pxs, data_length0, data_sent, loc) :
                        loc \in {[NoExtraction EXCEPT !.self = self,
                                                      !.data_length = data_length0,
                                                      !.data_position = pd.position]}}) :
            self \in {g.self}, pd \in {g.d}}) :
        g \in {generate_pattern(self0, image_mode)}})

-----------------------------------------------------------------------------
(* Inputs shared by the scenarios *)

RGBA == <<"R", "G", "B", "A">>
RGB == <<"R", "G", "B">>
GREY == <<"L">>

\* byte values the scenarios draw from: all zeros, all ones, mixed bits
ByteValues == {0, 255, 165}

\* A raster of n pixels of the given layout; fill picks its contents.
Raster(image_mode, n, fill) ==
    [p \in 1..n |->
        [c \in 1..Len(image_mode) |->
            CASE fill = 0 -> 0
              [] fill = 1 -> 255
              [] OTHER -> (37 * p + 11 * c) % 256]]

NoResult == [err |-> "", pixels |-> <<>>, data |-> <<>>, span |-> 0]

-----------------------------------------------------------------------------
(* Scenario SpecCodec: one direct encode_data call, then one decode_data   *)
(* call with the same parameters on the raster it returned.                *)

CodecChannels(image_mode) ==
    IF image_mode = RGBA THEN {RGBA, <<"A">>, <<"R", "B">>} ELSE {image_mode}

InitCodec ==
    /\ pc = "codec_start"
    /\ mode \in {RGBA, GREY}
    /\ \E n \in (MaxPixels - 1)..MaxPixels, fill \in {0, 2} :
           pixels = Raster(mode, n, fill)
    /\ data \in SeqsUpTo(ByteValues, MaxDataLen)
    /\ \E ch \in CodecChannels(mode), bf \in 1..8, sp \in 1..MaxSpacing, off \in 0..MaxOffset :
           args = [channels |-> ch, bit_frequency |-> bf, byte_spacing |-> sp, offset |-> off]
    /\ pattern = <<>>
    /\ encoded = NoResult
    /\ buffer = <<>>
    /\ corrupted = {}
    /\ decoded = NoResult

CodecEncode ==
    /\ pc = "codec_start"
    /\ LET r == encode_data(mode, pixels, data, args.channels, args.bit_frequency,
                            args.byte_spacing, args.offset)
       IN  encoded' = [NoResult EXCEPT !.pixels = r.pixels, !.span = r.span]
    /\ pc' = "codec_encoded"
    /\ UNCHANGED <<mode, pixels, data, pattern, args, buffer, corrupted, decoded>>

CodecDecode ==
    /\ pc = "codec_encoded"
    /\ LET r == decode_data(mode, encoded.pixels, Len(data), args.channels,
                            args.bit_frequency, args.byte_spacing, args.offset)
       IN  decoded' = [NoResult EXCEPT !.err = r.err, !.data = r.data, !.span = r.span]
    /\ pc' = "codec_decoded"
    /\ UNCHANGED <<mode, pixels, data, pattern, args, encoded, buffer, corrupted>>

NextCodec == CodecEncode \/ CodecDecode

SpecCodec == InitCodec /\ [][NextCodec]_vars

-----------------------------------------------------------------------------
(* Write slots of a direct call, as the specification defines them *)

\* (pixel p0, channel position ci) is an eligible channel on a spacing boundary
SlotPosition(p0, ci) ==
    /\ p0 >= args.offset
    /\ In(mode[ci], args.channels)
    /\ (p0 - args.offset) % args.byte_spacing = 0

\* how many such positions the traversal visits before (p0, ci)
SlotRank(p0, ci) ==
    Cardinality({q \in (args.offset..p0) \X (1..Len(mode)) :
                    /\ SlotPosition(q[1], q[2])
                    /\ (q[1] < p0 \/ q[2] < ci)})

\* a write slot: a slot position reached while bits remain
WriteSlot(p0, ci) ==
    /\ SlotPosition(p0, ci)
    /\ SlotRank(p0, ci) * args.bit_frequency < 8 * Len(data)

\* the raster offers enough slot positions from offset for all bits of data
EnoughSlots ==
    Cardinality({q \in (args.offset..(Len(pixels) - 1)) \X (1..Len(mode)) :
                    SlotPosition(q[1], q[2])}) * args.bit_frequency >= 8 * Len(data)

-----------------------------------------------------------------------------
(* Claims about the bit codec *)

\* C1: with enough write slots from offset, decode_data on the raster returned
\* by encode_data, with the same parameters and length, returns exactly the
\* data, for every bit_frequency in 1..8 (also when 8 * |D| is not a multiple
\* of bit_frequency).
C1_CodecRoundTrip ==
    (pc = "codec_decoded" /\ EnoughSlots) => (decoded.err = "" /\ decoded.data = data)

\* C3: the raster returned by encode_data differs from the input only at write
\* slots, and there only in the lowest bit_frequency bits: the upper
\* 8 - bit_frequency bits of every channel value are those of the input.
C3_BitPreservation ==
    (pc = "codec_encoded") =>
        \A p \in 1..Min(Len(pixels), Len(encoded.pixels)) :
            \A ci \in 1..Len(pixels[p]) :
                /\ encoded.pixels[p][ci] \div Pow2(args.bit_frequency)
                       = pixels[p][ci] \div Pow2(args.bit_frequency)
                /\ ~WriteSlot(p - 1, ci) => encoded.pixels[p][ci] = pixels[p][ci]

-----------------------------------------------------------------------------
(* Scenario SpecRS: rs_encode, symbol errors in flight, rs_decode *)

\* correction factors of the scenarios: 1/4, 1/2 and 1
Factors == {[num |-> 1, den |-> 4], [num |-> 1, den |-> 2], [num |-> 1, den |-> 1]}

\* the factors of the scenario: those, and 10^-11, which is in the allowed
\* range ]0, 1] and below the resolution of round(..., 10)
RsFactors == Factors \cup {[num |-> 1, den |-> 1, exp |-> 11]}

\* longest of the short buffers handed to rs_encode
MaxRsLen == 3
\* the long buffers exceed one chunk's data symbols by 0..MaxOverChunk
MaxOverChunk == 1
\* most symbols changed in flight
MaxErrors == 2
\* symbols can be changed within ErrWindow of either end of the buffer and
\* of a chunk boundary
ErrWindow == 2

\* a buffer of n bytes
RsBuffer(n) == [i \in 1..n |-> (13 * i + 5) % 256]

RsLengths(f) ==
    (0..MaxRsLen) \cup {MaxDataSymbolsInChunk(f) + j : j \in 0..MaxOverChunk}

ErrPositions(b) ==
    {i \in 1..Len(b) :
        \/ i <= ErrWindow
        \/ i > Len(b) - ErrWindow
        \/ (i % RS_CHUNK_SIZE) < ErrWindow
        \/ (i % RS_CHUNK_SIZE) > RS_CHUNK_SIZE - ErrWindow}

InitRS ==
    /\ pc = "rs_start"
    /\ mode = <<>>
    /\ pixels = <<>>
    /\ pattern = <<>>
    /\ \E f \in RsFactors :
           /\ args = [correction_factor |-> f]
           /\ \E n \in RsLengths(f) : data = RsBuffer(n)
    /\ encoded = NoResult
    /\ buffer = <<>>
    /\ corrupted = {}
    /\ decoded = NoResult

RsEncode ==
    /\ pc = "rs_start"
    /\ LET run == RsEncodeRun(data, args.correction_factor)
       IN  encoded' = [err |-> "", data |-> run.encoded_data, chunks |-> run.chunks]
    /\ buffer' = encoded'.data
    /\ pc' = "rs_encoded"
    /\ UNCHANGED <<mode, pixels, data, pattern, args, corrupted, decoded>>

\* one symbol of the buffer is changed in flight (all its bits flipped)
RsCorrupt ==
    /\ pc = "rs_encoded"
    /\ Cardinality(corrupted) < MaxErrors
    /\ \E i \in ErrPositions(buffer) \ corrupted :
           /\ buffer' = [buffer EXCEPT ![i] = 255 - @]
           /\ corrupted' = corrupted \cup {i}
    /\ UNCHANGED <<pc, mode, pixels, data, pattern, args, encoded, decoded>>

RsDecode ==
    /\ pc = "rs_encoded"
    /\ LET r == rs_decode(buffer, args.correction_factor, encoded.data)
       IN  decoded' = [err |-> r.err, data |-> r.data,
                       chunks |-> RsDecodeRun(buffer, args.correction_factor,
                                              encoded.data).chunks]
    /\ pc' = "rs_decoded"
    /\ UNCHANGED <<mode, pixels, data, pattern, args, encoded, buffer, corrupted>>

NextRS == RsEncode \/ RsCorrupt \/ RsDecode

SpecRS == InitRS /\ [][NextRS]_vars

\* floor(correction_factor * n)
RECURSIVE FloorDivPow(_, _, _)
FloorDivPow(a, b, k) == IF k = 0 THEN a \div b ELSE FloorDivPow(a \div 10, b, k - 1)

\* C8: whatever symbols of rs_encode(D, f) are changed, as long as at most
\* floor(f * |D|) of them are, rs_decode returns D.
C8_RsTolerance ==
    (/\ pc = "rs_decoded"
     /\ Cardinality(corrupted)
            <= FloorDivPow(args.correction_factor.num * Len(data),
                           args.correction_factor.den,
                           DecimalExponent(args.correction_factor)))
        => (decoded.err = "" /\ decoded.data = data)

RsEncoded == pc \in {"rs_encoded", "rs_decoded"}

RECURSIVE SumOver(_, _)
SumOver(chunks, field) ==
    IF Len(chunks) = 0 THEN 0 ELSE chunks[1][field] + SumOver(Tail(chunks), field)

\* C25: rs_decode, handed the buffer rs_encode made for n data symbols and
\* the same factor f, is handed n + ceil(2 * f * n) symbols and slices them
\* into the chunks rs_encode made: the same data symbols and redundant
\* symbols per chunk, between the same boundaries.
C25_ChunkPlanMirrored ==
    (pc = "rs_decoded" /\ corrupted = {})
    => /\ Len(buffer) = Len(data) + RedundantSymbols(args.correction_factor, Len(data))
       /\ decoded.chunks = encoded.chunks

\* C26: every chunk rs_encode emits has at most RS_CHUNK_SIZE symbols and at
\* most floor(RS_CHUNK_SIZE / (1 + 2f)) data symbols; the chunks consume all
\* n data symbols, their redundant symbols add up to t = ceil(2 * f * n), and
\* the output has n + t symbols.
C26_RsSizes ==
    RsEncoded
    => LET f == args.correction_factor
           n == Len(data)
           t == RedundantSymbols(f, n)
       IN  /\ \A i \in DOMAIN encoded.chunks :
                  /\ encoded.chunks[i].data_symbols + encoded.chunks[i].rs_redundant_symbols
                         <= RS_CHUNK_SIZE
                  /\ encoded.chunks[i].data_symbols <= MaxDataSymbolsInChunk(f)
                  /\ encoded.chunks[i].encoded_end - encoded.chunks[i].encoded_start
                         = encoded.chunks[i].data_symbols
                               + encoded.chunks[i].rs_redundant_symbols
           /\ SumOver(encoded.chunks, "data_symbols") = n
           /\ SumOver(encoded.chunks, "rs_redundant_symbols") = t
           /\ Len(encoded.data) = n + t

-----------------------------------------------------------------------------
(* Scenario SpecRedundancy: static_apply_redundancy, byte errors in flight, *)
(* static_reconstruct_redundancy                                           *)

\* longest buffer handed to static_apply_redundancy
MaxRedLen == 2
\* largest repetition factor
MaxRep == 3
\* most bytes changed in flight
MaxCorrupt == 2

InitRedundancy ==
    /\ pc = "red_start"
    /\ mode = <<>>
    /\ pixels = <<>>
    /\ pattern = <<>>
    /\ data \in SeqsUpTo(ByteValues, MaxRedLen)
    /\ \E k \in 1..MaxRep, m \in {"byte_per_byte", "block"},
          a \in {"none", "reed_solomon"}, f \in Factors :
           /\ a = "none" => f.den = 4   \* the factor is not read without Reed-Solomon
           /\ args = [repetitive_redundancy |-> k,
                      repetitive_redundancy_mode |-> m,
                      advanced_redundancy |-> a,
                      advanced_redundancy_correction_factor |-> f]
    /\ encoded = NoResult
    /\ buffer = <<>>
    /\ corrupted = {}
    /\ decoded = NoResult

RedApply ==
    /\ pc = "red_start"
    /\ LET r == static_apply_redundancy(data, args.repetitive_redundancy,
                    args.repetitive_redundancy_mode, args.advanced_redundancy,
                    args.advanced_redundancy_correction_factor)
       IN  /\ encoded' = [NoResult EXCEPT !.err = r.err, !.data = r.data]
           /\ buffer' = r.data
    /\ pc' = "red_applied"
    /\ UNCHANGED <<mode, pixels, data, pattern, args, corrupted, decoded>>

\* one byte of the buffer is changed in flight
RedCorrupt ==
    /\ pc = "red_applied"
    /\ Cardinality(corrupted) < MaxCorrupt
    /\ \E i \in (1..Len(buffer)) \ corrupted, v \in {0, 255} :
           /\ v # buffer[i]
           /\ buffer' = [buffer EXCEPT ![i] = v]
           /\ corrupted' = corrupted \cup {i}
    /\ UNCHANGED <<pc, mode, pixels, data, pattern, args, encoded, decoded>>

\* what rs_encode produced inside static_apply_redundancy, before repetition
RedSent ==
    IF args.advanced_redundancy = "reed_solomon"
    THEN rs_encode(data, args.advanced_redundancy_correction_factor)
    ELSE data

RedReconstruct ==
    /\ pc = "red_applied"
    /\ encoded.err = ""
    /\ LET r == static_reconstruct_redundancy(buffer, args.repetitive_redundancy,
                    args.repetitive_redundancy_mode, args.advanced_redundancy,
                    args.advanced_redundancy_correction_factor, RedSent)
       IN  decoded' = [NoResult EXCEPT !.err = r.err, !.data = r.data]
    /\ pc' = "red_done"
    /\ UNCHANGED <<mode, pixels, data, pattern, args, encoded, buffer, corrupted>>

NextRedundancy == RedApply \/ RedCorrupt \/ RedReconstruct

SpecRedundancy == InitRedundancy /\ [][NextRedundancy]_vars

\* the 1-based positions of the copies of byte j (1-based) in the repeated buffer
Copies(j) ==
    LET k == args.repetitive_redundancy
        n == Len(buffer) \div k
    IN  IF args.repetitive_redundancy_mode = "byte_per_byte"
        THEN {(j - 1) * k + r : r \in 1..k}
        ELSE {(r - 1) * n + j : r \in 1..k}

\* in every group of k copies strictly fewer than k / 2 copies are changed
MinorityCorrupted ==
    \A j \in 1..(Len(buffer) \div args.repetitive_redundancy) :
        2 * Cardinality(corrupted \cap Copies(j)) < args.repetitive_redundancy

\* C9: for k > 1, in either mode and without advanced redundancy, if strictly
\* fewer than k / 2 copies of every group are changed, reconstruction returns
\* exactly the buffer that static_apply_redundancy was given.
C9_MajorityVoting ==
    (/\ pc = "red_done"
     /\ args.repetitive_redundancy > 1
     /\ args.advanced_redundancy = "none"
     /\ MinorityCorrupted)
        => (decoded.err = "" /\ decoded.data = data)

\* the statement of C9 on the buffers that are not empty
MajorityVotingNonEmpty ==
    (/\ pc = "red_done"
     /\ Len(data) > 0
     /\ args.repetitive_redundancy > 1
     /\ args.advanced_redundancy = "none"
     /\ MinorityCorrupted)
        => (decoded.err = "" /\ decoded.data = data)

\* C10: without corruption, reconstruct_redundancy(apply_redundancy(D)) = D
\* for every buffer D (the empty one included), every k >= 1, both modes, with
\* and without Reed-Solomon.
C10_RedundancyRoundTrip ==
    (pc = "red_done" /\ corrupted = {}) => (decoded.err = "" /\ decoded.data = data)

\* the statement of C10 on the buffers that are not empty
RedundancyRoundTripNonEmpty ==
    (pc = "red_done" /\ corrupted = {} /\ Len(data) > 0)
        => (decoded.err = "" /\ decoded.data = data)

\* the buffer the voting loop reads: block mode is first brought to
\* byte_per_byte order
VotedBuffer ==
    IF args.repetitive_redundancy_mode = "block"
    THEN BlockTranspose(buffer, Len(buffer) \div args.repetitive_redundancy)
    ELSE buffer

VotedGroup(j) ==
    Slice(VotedBuffer, (j - 1) * args.repetitive_redundancy, j * args.repetitive_redundancy)

\* the neighbour set of group j: the byte reconstructed for group j - 1 if
\* there is one, and the byte of group j + 1 that more than half of its copies
\* carry if there is one
NeighbourSet(j) ==
    LET next == VotedGroup(j + 1)
        strict == {b \in Range(next) : 2 * Count(next, b) > Len(next)}
    IN  (IF j > 1 THEN <<decoded.data[j - 1]>> ELSE <<>>)
        \o (IF j * args.repetitive_redundancy < Len(VotedBuffer) /\ strict # {}
            THEN <<CHOOSE b \in strict : TRUE>> ELSE <<>>)

\* the byte group j reconstructs to by the stated rule
NearestFirstByte(j) ==
    LET group == VotedGroup(j)
        top == {b \in Range(group) : Count(group, b) = MaxCount(group)}
        dist(b) == calculate_byte_distance(b, NeighbourSet(j))
        nearest == {b \in top : \A c \in top : dist(b) <= dist(c)}
        first == CHOOSE i \in DOMAIN group :
                     group[i] \in nearest /\ \A h \in 1..(i - 1) : group[h] \notin nearest
    IN  group[first]

VotingDone ==
    /\ pc = "red_done"
    /\ args.repetitive_redundancy > 1
    /\ args.advanced_redundancy = "none"
    /\ decoded.err = ""

\* C28: every group reconstructs to the byte, among those of maximal count in
\* the group, nearest (L1) to the neighbour set; among equally near ones, to
\* the one that occurs first in the group.
C28_TieBreaking ==
    VotingDone => \A j \in DOMAIN decoded.data : decoded.data[j] = NearestFirstByte(j)

-----------------------------------------------------------------------------
(* Scenario SpecPipeline: Encoder.apply_pattern on a raster, then           *)
(* Decoder.extract_data with the same Pattern object on the raster returned.*)
(* The patterns come in three families, each varying one group of options   *)
(* around a small base pattern.                                             *)

\* raster sizes (in pixels) of the pipeline scenario
SmallRaster == 4
LargeRaster == 32
\* longest payload of the pipeline scenario
MaxPayload == 3

PipePayloads == {d \in {<<>>, <<165>>, <<90, 255>>, <<255, 0, 165>>} : Len(d) <= MaxPayload}

QUARTER == [num |-> 1, den |-> 4]
EIGHTH == [num |-> 1, den |-> 8]

\* the options every family starts from
PipeBase ==
    [channels |-> STR_ALL, bit_frequency |-> 8, hash_check |-> "False",
     advanced_redundancy |-> "none", header_bit_frequency |-> 8,
     header_repetitive_redundancy |-> 1, header_advanced_redundancy |-> "none"]

\* kwargs extended / overridden by more
With(kwargs, more) ==
    [k \in DOMAIN kwargs \cup DOMAIN more |-> IF k \in DOMAIN more THEN more[k] ELSE kwargs[k]]

\* the bit-codec options of the payload, the offset and the header position
CodecFamily ==
    {With(PipeBase, [channels |-> ch, bit_frequency |-> bf, byte_spacing |-> sp,
                     offset |-> off, header_position |-> hp, header_bit_frequency |-> hbf]) :
        ch \in {STR_ALL, <<"a">>, <<"R", "G", "B">>}, bf \in {1, 2, 8}, sp \in 1..2,
        off \in {0, 1, 3}, hp \in {"auto", "image_start"}, hbf \in {1, 8}}

\* hashing, compression and the payload's redundancy
PayloadFamily ==
    {With(PipeBase, [hash_check |-> hc, compression_pattern |-> cp,
                     advanced_redundancy |-> ar[1],
                     advanced_redundancy_correction_factor |-> ar[2],
                     repetitive_redundancy |-> rr[1],
                     repetitive_redundancy_mode |-> rr[2]]) :
        hc \in {"False", "True", "sha256"}, cp \in {"none", "zlib"},
        ar \in {<<"none", QUARTER>>, <<"reed_solomon", QUARTER>>, <<"reed_solomon", EIGHTH>>},
        rr \in {<<1, "byte_per_byte">>, <<2, "byte_per_byte">>, <<2, "block">>,
                <<3, "byte_per_byte">>}}

\* the header options
HeaderFamily ==
    {With(PipeBase, [header_enabled |-> he[1], header_write_data_size |-> he[2],
                     header_write_pattern |-> he[3],
                     header_channels |-> hch, header_position |-> hp,
                     header_bit_frequency |-> hbf,
                     header_repetitive_redundancy |-> hrr,
                     header_advanced_redundancy |-> har,
                     header_advanced_redundancy_correction_factor |-> QUARTER,
                     offset |-> off, channels |-> ch]) :
        he \in {<<TRUE, TRUE, FALSE>>, <<TRUE, TRUE, TRUE>>, <<TRUE, FALSE, TRUE>>,
                <<TRUE, FALSE, FALSE>>, <<FALSE, TRUE, FALSE>>},
        hch \in {STR_AUTO, <<"A">>, STR_ALL}, hp \in {"auto", "image_start", "before_data"},
        hbf \in {1, 8}, hrr \in {1, 3}, har \in {"none", "reed_solomon"},
        off \in {0, 2}, ch \in {STR_ALL, <<"R", "G", "B">>}}

\* patterns for an image without an alpha channel
RgbFamily ==
    {With(PipeBase, [hash_check |-> hc, channels |-> ch, header_position |-> hp,
                     header_bit_frequency |-> hbf]) :
        hc \in {"False", "sha256"}, ch \in {STR_ALL, <<"R", "G", "B">>},
        hp \in {"auto", "image_start"}, hbf \in {1, 8}}

\* no keyword arguments: Pattern()
NoKwargs == [k \in {} |-> 0]

InitPipeline ==
    /\ pc = "pipe_start"
    /\ \/ /\ mode = RGBA
          /\ \E kwargs \in CodecFamily \cup PayloadFamily \cup HeaderFamily :
                 pattern = PatternInit(kwargs)
       \/ /\ mode = RGB
          /\ \/ \E kwargs \in RgbFamily : pattern = PatternInit(kwargs)
             \/ pattern = PatternInit(NoKwargs)
    /\ \E n \in {SmallRaster, LargeRaster} : pixels = Raster(mode, n, 2)
    /\ data \in PipePayloads
    /\ args = [data_length |-> None, enforce_provided_pattern |-> FALSE]
    /\ encoded = NoEncoding
    /\ buffer = <<>>
    /\ corrupted = {}
    /\ decoded = NoExtraction

\* encoder.apply_pattern(pixels, data)
PipeEncode ==
    /\ pc = "pipe_start"
    /\ encoded' = apply_pattern(pattern, mode, pixels, data)
    /\ pattern' = encoded'.self
    /\ pc' = "pipe_encoded"
    /\ UNCHANGED <<mode, pixels, data, args, buffer, corrupted, decoded>>

\* decoder.extract_data(encoded_pixels, data_length, enforce_provided_pattern)
\* when apply_pattern returned a raster; the caller passes no length, or the
\* length of the buffer that was written
PipeDecode ==
    /\ pc = "pipe_encoded"
    /\ encoded.err = ""
    /\ \E dl \in {None, Len(encoded.data)}, en \in BOOLEAN :
           /\ (en => dl # None)
           /\ (pattern.header_enabled => ~en)
           /\ args' = [data_length |-> dl, enforce_provided_pattern |-> en]
           /\ decoded' = extract_data(pattern, mode, encoded.pixels, dl, en,
                             encoded.header_coded, encoded.coded)
    /\ pattern' = decoded'.self
    /\ pc' = "pipe_decoded"
    /\ UNCHANGED <<mode, pixels, data, encoded, buffer, corrupted>>

NextPipeline == PipeEncode \/ PipeDecode

SpecPipeline == InitPipeline /\ [][NextPipeline]_vars

-----------------------------------------------------------------------------
(* Write slots of the full encode, as the specification defines them *)

\* the options as generate_pattern resolves them for the scenario's image
Resolved == generate_pattern(pattern, mode).d

\* how many slot positions the raster offers from pixel start on: eligible
\* channels of the pixels on a spacing boundary
SlotsFrom(start, channels, byte_spacing) ==
    Cardinality({p0 \in start..(Len(pixels) - 1) : (p0 - start) % byte_spacing = 0})
    * Cardinality({ci \in 1..Len(mode) : In(mode[ci], channels)})

\* every bit of the header found a write slot
HeaderFits ==
    \/ Len(encoded.header) = 0
    \/ SlotsFrom(encoded.header_position, Resolved.header_channels,
                 Resolved.header_byte_spacing) * Resolved.header_bit_frequency
           >= 8 * Len(encoded.header)

\* every bit of the payload (after hash, compression, redundancy) found a write slot
PayloadFits ==
    SlotsFrom(encoded.data_position, Resolved.channels, Resolved.byte_spacing)
        * Resolved.bit_frequency >= 8 * Len(encoded.data)

\* apply_pattern returned a raster
Encoded == pc \in {"pipe_encoded", "pipe_decoded"} /\ encoded.err = ""

\* the last pixel the code reports as touched by the header and payload writes
LastTouched ==
    Max(encoded.data_position + encoded.data_added_offset,
        IF Len(encoded.header) > 0
        THEN encoded.header_position + encoded.header_added_offset
        ELSE 0)

\* the header bytes as a read of the returned raster at the header position gives them
HeaderReadBack ==
    decode_data(mode, encoded.pixels, Len(encoded.header), Resolved.header_channels,
        Resolved.header_bit_frequency, Resolved.header_byte_spacing,
        encoded.header_position)

-----------------------------------------------------------------------------
(* Claims about the full pipeline *)

\* C2: full-pipeline round trip.  With the header enabled and carrying the
\* length, on a raster with room for every header and payload bit,
\* extract_data called without a length on the raster apply_pattern returned
\* gives back exactly the payload when hashing is enabled, and a buffer that
\* starts with the payload when hashing is disabled.
C2_PipelineRoundTrip ==
    (/\ pc = "pipe_decoded"
     /\ pattern.header_enabled /\ pattern.header_write_data_size
     /\ args.data_length = None
     /\ HeaderFits /\ PayloadFits)
    => /\ decoded.err = ""
       /\ IF Truthy(pattern.hash_check)
          THEN decoded.data = data
          ELSE /\ Len(decoded.data) >= Len(data)
               /\ SubSeq(decoded.data, 1, Len(data)) = data

\* C4: capacity error.  apply_pattern never returns a raster when the header
\* or the payload (after hash, compression and redundancy) needs more write
\* slots than the raster offers from its start pixel: a returned raster has
\* every header bit and every payload bit written.
C4_CapacityError ==
    Encoded => HeaderFits /\ PayloadFits

\* C5: capacity boundary.  A payload as long as calculate_max_data_size says
\* is encoded without error, and a payload one byte longer fails with the
\* capacity error.
C5_CapacityBoundary ==
    pc \in {"pipe_encoded", "pipe_decoded"}
    => LET m == calculate_max_data_size(pattern, Len(pixels), mode)
       IN  m.err = ""
           => /\ (Len(data) = m.size => encoded.err = "")
              /\ (Len(data) = m.size + 1 => encoded.err = "ValueError")

\* C6: header and payload do not share write slots.  When the header is
\* placed before the data, or at the image start with the data offset inside
\* its span, the payload starts at a pixel strictly greater than the last
\* pixel of the header, and the header read back from the raster is the
\* header written.
C6_HeaderPayloadDisjoint ==
    (/\ Encoded
     /\ Len(encoded.header) > 0 /\ Len(encoded.data) > 0
     /\ HeaderFits
     /\ \/ Resolved.header_position = "before_data"
        \/ /\ Resolved.header_position = "image_start"
           /\ ranges_overlap(0, encoded.header_added_offset, pattern.offset, pattern.offset))
    => /\ encoded.data_position > encoded.header_position + encoded.header_added_offset
       /\ HeaderReadBack.err = ""
       /\ HeaderReadBack.data = encoded.header

\* C7: non-invasiveness.  In the raster apply_pattern returns, every pixel
\* before the pattern's offset and every pixel after the last pixel touched
\* is the pixel of the input raster.
C7_NonInvasive ==
    Encoded
    => \A i \in 0..(Len(pixels) - 1) :
           (i < pattern.offset \/ i > LastTouched)
           => /\ i < Len(encoded.pixels)
              /\ encoded.pixels[i + 1] = pixels[i + 1]

-----------------------------------------------------------------------------
(* Scenario SpecCompress: one static_compress_data call, then one          *)
(* static_decompress_data call on its result.                              *)

\* longest buffer drawn from every byte value
MaxCompressLen == 3
\* length of the long run of equal bytes, which deflate shrinks
RunLen == 40

\* a run of n equal bytes
ByteRun(n, byte) == [i \in 1..n |-> byte]

CompressBuffers ==
    SeqsUpTo(ByteValues, MaxCompressLen) \cup {ByteRun(RunLen, b) : b \in {0, 165}}

InitCompress ==
    /\ pc = "compress_start"
    /\ mode = <<>>
    /\ pixels = <<>>
    /\ pattern = <<>>
    /\ data \in CompressBuffers
    /\ \E c \in {"zlib", "none", "lzma"}, s \in {1, 6, 9} :
           args = [compression |-> c, compression_strength |-> s]
    /\ encoded = NoResult
    /\ buffer = <<>>
    /\ corrupted = {}
    /\ decoded = NoResult

\* Pattern.static_compress_data(data, compression, compression_strength)
CompressStep ==
    /\ pc = "compress_start"
    /\ LET r == static_compress_data(data, args.compression, args.compression_strength)
       IN  encoded' = [NoResult EXCEPT !.err = r.err, !.data = r.data]
    /\ pc' = "compressed"
    /\ UNCHANGED <<mode, pixels, data, pattern, args, buffer, corrupted, decoded>>

\* Pattern.static_decompress_data(data, compression) on the compressed buffer
DecompressStep ==
    /\ pc = "compressed"
    /\ encoded.err = ""
    /\ LET r == static_decompress_data(encoded.data, args.compression)
       IN  decoded' = [NoResult EXCEPT !.err = r.err, !.data = r.data]
    /\ pc' = "decompressed"
    /\ UNCHANGED <<mode, pixels, data, pattern, args, encoded, buffer, corrupted>>

NextCompress == CompressStep \/ DecompressStep

SpecCompress == InitCompress /\ [][NextCompress]_vars

\* C11: compression round trip.  With compression "zlib", decompressing what
\* static_compress_data returned gives back the buffer that was compressed:
\* the flag byte is stripped, and the remainder is returned unchanged (flag
\* '0') or inflated (flag '1').
C11_CompressionRoundTrip ==
    (pc = "decompressed" /\ args.compression = "zlib")
    => /\ decoded.err = ""
       /\ decoded.data = data

-----------------------------------------------------------------------------
(* Scenario SpecResolve: Pattern(options).generate_pattern(image.mode),    *)
(* called once by the encoder and once more, on the same Pattern object,   *)
(* by the decoder.                                                         *)

LA == <<"L", "A">>

\* image layouts; the empty layout is refused
ResolveModes == {RGBA, RGB, GREY, LA, <<"r", "g", "b">>, <<>>}

\* values of the channels option
ChannelOptions ==
    {NONE, STR_EMPTY, STR_ALL, <<"A", "L", "L">>, <<"A", "l", "l">>, STR_AUTO,
     <<"A", "u", "t", "o">>, <<"r", "g", "b">>, RGB, <<"a">>, <<"R">>, <<"r", "g", "b", "a">>,
     <<"l">>, <<"b", "a">>}

\* values of the header_channels option
HeaderChannelOptions ==
    {NONE, STR_EMPTY, STR_ALL, STR_AUTO, <<"A", "U", "T", "O">>, <<"a">>, <<"B">>,
     <<"r", "g", "b">>}

ResolveKwargs ==
    {[channels |-> ch, header_channels |-> hch, header_enabled |-> he,
      header_write_data_size |-> hs, header_write_pattern |-> hw, header_position |-> hp] :
        ch \in ChannelOptions, hch \in HeaderChannelOptions, he \in BOOLEAN, hs \in BOOLEAN,
        hw \in BOOLEAN, hp \in {"auto", "image_start", "before_data", "IMAGE_START"}}

\* options that also place the payload and compress it
PlacedKwargs ==
    {With(kwargs, [offset |-> off, compression_pattern |-> cp]) :
        kwargs \in {k \in ResolveKwargs : k.channels = STR_ALL /\ k.header_channels = STR_AUTO},
        off \in {0, 2}, cp \in {"none", "zlib"}}

NoResolution == [err |-> "", self |-> <<>>, d |-> NoPatternData]

InitResolve ==
    /\ pc = "resolve_start"
    /\ mode \in ResolveModes
    /\ pixels = <<>>
    /\ data = <<>>
    /\ \E kwargs \in ResolveKwargs \cup PlacedKwargs :
           /\ args = kwargs
           /\ pattern = PatternInit(kwargs)
    /\ encoded = NoResolution
    /\ buffer = <<>>
    /\ corrupted = {}
    /\ decoded = NoResolution

\* pattern.generate_pattern(image.mode), as Encoder.apply_pattern calls it
ResolveStep ==
    /\ pc = "resolve_start"
    /\ encoded' = generate_pattern(pattern, mode)
    /\ pattern' = encoded'.self
    /\ pc' = "resolved"
    /\ UNCHANGED <<mode, pixels, data, args, buffer, corrupted, decoded>>

\* the same call on the same Pattern object, as Decoder.extract_data makes it
ResolveAgain ==
    /\ pc = "resolved"
    /\ decoded' = generate_pattern(pattern, mode)
    /\ pattern' = decoded'.self
    /\ pc' = "resolved_again"
    /\ UNCHANGED <<mode, pixels, data, args, encoded, buffer, corrupted>>

NextResolve == ResolveStep \/ ResolveAgain

SpecResolve == InitResolve /\ [][NextResolve]_vars

\* the image layout M of the scenario
Layout == Upper(mode)

\* the channels the channels option stands for: M for null, "", "all" and
\* "auto" in any letter case, the uppercased option otherwise
NormalChannels(option) ==
    IF option = NONE \/ option = STR_EMPTY \/ Lower(option) \in {STR_ALL, STR_AUTO}
    THEN Layout
    ELSE Upper(option)

\* C17: channel normalisation.  For a non-empty layout M, generate_pattern
\* resolves channels to M for null, "", "all" and "auto" and to the uppercased
\* option otherwise; a result is never an empty channel set; the call fails
\* with the invalid-channels error when a resolved letter is not in M, and
\* does not fail for the channels' sake otherwise (seen with header channels
\* "all", which every layout accepts).
C17_ChannelNormalisation ==
    (pc \in {"resolved", "resolved_again"} /\ Len(Layout) > 0)
    => LET expected == NormalChannels(args.channels)
       IN  /\ encoded.err = ""
              => /\ encoded.d.channels = expected
                 /\ Len(encoded.d.channels) > 0
                 /\ AllIn(expected, Layout)
           /\ ~AllIn(expected, Layout) => encoded.err = "ValueError"
           /\ (AllIn(expected, Layout) /\ args.header_channels = STR_ALL) => encoded.err = ""

\* the header is meant to be discovered
Discoverable ==
    /\ args.header_enabled
    /\ args.header_write_data_size
    /\ (args.header_write_pattern \/ args.header_position = "image_start")

\* C18: header channel auto-selection.  With header_channels "auto", a
\* discoverable header resolves to the single channel A if M has it, else B
\* if M has it, else the first letter of M; a header that is not
\* discoverable resolves to the resolved data channels.
C18_HeaderChannelAuto ==
    (/\ pc \in {"resolved", "resolved_again"}
     /\ Lower(args.header_channels) = STR_AUTO
     /\ encoded.err = "")
    => encoded.d.header_channels =
           IF Discoverable
           THEN IF In("A", Layout) THEN <<"A">>
                ELSE IF In("B", Layout) THEN <<"B">>
                ELSE <<Layout[1]>>
           ELSE encoded.d.channels

\* Pattern(**resolved).generate_pattern(M): a pattern built from the
\* dictionary the first call returned, resolved against the same layout
ResolvedTwice == generate_pattern(PatternInit(encoded.d), mode)

\* C22: idempotence of resolve.  When generate_pattern succeeds, a pattern
\* built from the dictionary it returned resolves against the same layout
\* without error to the same dictionary, field by field; and a second call
\* on the same Pattern object returns a dictionary equal to the first.
C22_ResolveIdempotent ==
    (pc \in {"resolved", "resolved_again"} /\ encoded.err = "")
    => /\ ResolvedTwice.err = ""
       /\ ResolvedTwice.d = encoded.d
       /\ pc = "resolved_again"
          => /\ decoded.err = ""
             /\ decoded.d = encoded.d

\* C23: inputs are left unchanged.  generate_pattern leaves every option of
\* the Pattern object as the constructor set it, whether it returns or raises.
C23_InputsUnchanged ==
    (pc \in {"resolved", "resolved_again"}) => pattern = PatternInit(args)

-----------------------------------------------------------------------------
(* Scenario SpecOptions: the option values a caller gives, end to end.      *)
(* A pattern is built from keyword arguments, a payload is written into a   *)
(* raster, the raster is possibly tampered with (one channel value of one   *)
(* pixel changed), and the result is read back.  Three families of keyword  *)
(* arguments: the hash_check values with and without compression and        *)
(* Reed-Solomon; the keyword compression as the command line passes it; and *)
(* no keyword at all.                                                       *)

\* raster size (in pixels) for the pattern built from the defaults
DefaultRaster == 256

\* the hash_check values: algorithm names, the bools, and the string "none"
HashOptions == {"sha256", "True", "SHA256", "sha1", "sha512", "md5", "False", "none"}

IntegrityFamily ==
    {With(PipeBase, [hash_check |-> hc, compression_pattern |-> cp,
                     advanced_redundancy |-> ar,
                     advanced_redundancy_correction_factor |-> QUARTER]) :
        hc \in HashOptions, cp \in {"none", "zlib"}, ar \in {"none", "reed_solomon"}}

\* Pattern(..., compression=args.compression, ...) as cli.main builds it
CompressionFamily ==
    {With(PipeBase, [compression |-> c]) : c \in {"zlib", "none"}}

InitOptions ==
    /\ pc = "opt_start"
    /\ \E kwargs \in IntegrityFamily \cup CompressionFamily \cup {NoKwargs} :
           /\ args = [kwargs |-> kwargs, data_length |-> None,
                      enforce_provided_pattern |-> FALSE]
           /\ pattern = PatternInit(kwargs)
           /\ \/ /\ kwargs \in IntegrityFamily
                 /\ mode = RGBA
                 /\ pixels = Raster(mode, LargeRaster, 2)
                 /\ data \in PipePayloads
              \/ /\ kwargs \in CompressionFamily
                 /\ mode = RGBA
                 /\ pixels = Raster(mode, LargeRaster, 2)
                 /\ data \in {ByteRun(RunLen, 0), <<165>>}
              \/ /\ kwargs = NoKwargs
                 /\ mode = RGB
                 /\ pixels = Raster(mode, DefaultRaster, 2)
                 /\ data \in {<<165>>, <<90, 255>>}
    /\ encoded = NoEncoding
    /\ buffer = <<>>
    /\ corrupted = {}
    /\ decoded = NoExtraction

\* encoder.apply_pattern(pixels, data); buffer is the raster it returned
OptEncode ==
    /\ pc = "opt_start"
    /\ encoded' = apply_pattern(pattern, mode, pixels, data)
    /\ pattern' = encoded'.self
    /\ buffer' = IF encoded'.err = "" THEN encoded'.pixels ELSE <<>>
    /\ pc' = "opt_encoded"
    /\ UNCHANGED <<mode, pixels, data, args, corrupted, decoded>>

\* the stored image is altered before it is read: one channel value of one pixel
OptTamper ==
    /\ pc = "opt_encoded"
    /\ corrupted = {}
    /\ \E p \in {1, 3, 6} :
           /\ p <= Len(buffer)
           /\ buffer' = [buffer EXCEPT ![p][1] = 255 - @]
           /\ corrupted' = {p}
    /\ UNCHANGED <<pc, mode, pixels, data, pattern, args, encoded, decoded>>

\* decoder.extract_data(pixels) on the stored image
OptDecode ==
    /\ pc = "opt_encoded"
    /\ encoded.err = ""
    /\ decoded' = extract_data(pattern, mode, buffer, None, FALSE,
                      encoded.header_coded, encoded.coded)
    /\ pattern' = decoded'.self
    /\ pc' = "opt_decoded"
    /\ UNCHANGED <<mode, pixels, data, args, encoded, buffer, corrupted>>

NextOptions == OptEncode \/ OptTamper \/ OptDecode

SpecOptions == InitOptions /\ [][NextOptions]_vars

-----------------------------------------------------------------------------
(* Claims about hashing *)

\* the algorithm compute_hash uses for the pattern's hash_check
DigestAlgorithm ==
    IF pattern.hash_check = "True" THEN "sha256" ELSE LowerName(pattern.hash_check)

\* hash_check names a digest algorithm
HashingEnabled == Truthy(pattern.hash_check) /\ DigestAlgorithm \in AlgorithmsAvailable

\* the digest the buffer carries: its trailing bytes, as many as the algorithm's digest has
CarriedDigest ==
    Slice(decoded.data_bytes,
          Max(Len(decoded.data_bytes) - DigestSize(DigestAlgorithm), 0),
          Len(decoded.data_bytes))

\* the buffer without the digest it carries
CarriedBody ==
    Slice(decoded.data_bytes, 0, Len(decoded.data_bytes) - DigestSize(DigestAlgorithm))

\* C12: integrity check.  With hashing enabled, when extract_data comes to
\* the check with the buffer obtained after redundancy reconstruction and
\* decompression: if it returns, it returns the buffer without its trailing
\* digest and the digest recomputed over the returned bytes is that trailing
\* digest; and if the recomputed digest differs from the trailing digest, the
\* call ends with DataIntegrityCheckFailedError and returns no data.
C12_IntegrityCheck ==
    (pc = "opt_decoded" /\ HashingEnabled /\ decoded.reached_check)
    => /\ decoded.err = ""
          => /\ decoded.data = CarriedBody
             /\ Digest(DigestAlgorithm, decoded.data) = CarriedDigest
       /\ Digest(DigestAlgorithm, CarriedBody) # CarriedDigest
          => /\ decoded.err = "DataIntegrityCheckFailedError"
             /\ decoded.data = <<>>

\* a tampered raster whose buffer reached the check, did not match its digest
\* and was refused
C12_Witness ==
    /\ pc = "opt_decoded" /\ HashingEnabled /\ decoded.reached_check
    /\ corrupted # {}
    /\ Digest(DigestAlgorithm, CarriedBody) # CarriedDigest
    /\ decoded.err = "DataIntegrityCheckFailedError"


\* C13: the digest length follows the algorithm.  For every supported
\* hash_check algorithm, extract_data on the raster apply_pattern returned,
\* unaltered, with no compression, returns the payload and does not raise
\* DataIntegrityCheckFailedError.
C13_DigestLength ==
    (/\ pc = "opt_decoded" /\ HashingEnabled
     /\ corrupted = {}
     /\ pattern.compression = "none")
    => /\ decoded.err = ""
       /\ decoded.data = data

\* C14: disabling the hash.  With hash_check False or the string "none",
\* apply_pattern succeeds and writes the payload without a digest, and
\* extract_data on the unaltered raster returns the whole buffer it read,
\* the payload, without a check.
C14_HashDisabled ==
    (pattern.hash_check \in {"False", "none"} /\ pattern.compression = "none")
    => /\ pc \in {"opt_encoded", "opt_decoded"}
          => /\ encoded.err = ""
             /\ reconstruct_redundancy(pattern, encoded.data, "data", encoded.coded).data = data
       /\ (pc = "opt_decoded" /\ corrupted = {})
          => /\ decoded.err = ""
             /\ decoded.data = data


-----------------------------------------------------------------------------
(* Claims about the compression option and the defaults *)

\* the pattern was constructed with the option compression = "zlib"
CompressionRequested ==
    "compression" \in DOMAIN args.kwargs /\ args.kwargs.compression = "zlib"

\* apply_pattern for the same options with compression = "none"
WithoutCompression ==
    apply_pattern(PatternInit(With(args.kwargs, [compression |-> "none"])), mode, pixels, data)

\* C15: the compression option takes effect.  A pattern constructed with
\* compression = "zlib" resolves with compression enabled, and for a payload
\* that zlib strictly shrinks, apply_pattern packs strictly fewer bytes into
\* the pixels than it does for the same options with compression = "none".
C15_CompressionOption ==
    (pc \in {"opt_encoded", "opt_decoded"} /\ CompressionRequested)
    => /\ generate_pattern(pattern, mode).d.compression_enabled
       /\ Len(zlib_compress(data, pattern.compression_strength)) < Len(data)
          => /\ encoded.err = ""
             /\ WithoutCompression.err = ""
             /\ Len(encoded.data) < Len(WithoutCompression.data)


\* the bytes a pattern with hashing packs for the payload: the header after
\* its redundancy, and the payload with its digest after the data redundancy
PackedBytes ==
    Len(generate_header(pattern, Len(data)).data)
    + Len(apply_redundancy(pattern, data \o compute_hash(pattern, data).data, "data").data)

\* the raster has a channel value for every bit to pack, one bit per value
SufficientCapacity == Len(pixels) * Len(mode) >= 8 * PackedBytes

\* C16: the default pattern on an RGB raster.  With a pattern built without
\* any option, on an RGB raster with room for every bit, apply_pattern
\* succeeds and extract_data on the unaltered result returns the payload.
C16_DefaultOnRgb ==
    (/\ pc \in {"opt_encoded", "opt_decoded"}
     /\ args.kwargs = NoKwargs /\ mode = RGB
     /\ SufficientCapacity)
    => /\ encoded.err = ""
       /\ (pc = "opt_decoded" /\ corrupted = {})
          => /\ decoded.err = ""
             /\ decoded.data = data


\* the options as the calls resolved them
OptResolved == generate_pattern(pattern, mode).d

\* the encode stages, each applied to the result of the one before:
\* payload -> append hash -> compress -> apply redundancy
WithDigest ==
    data \o (IF Truthy(OptResolved.hash_check) THEN compute_hash(pattern, data).data
             ELSE <<>>)

ThenCompressed ==
    IF OptResolved.compression_enabled
    THEN static_compress_data(WithDigest, pattern.compression,
                              pattern.compression_strength).data
    ELSE WithDigest

ThenRedundant == apply_redundancy(pattern, ThenCompressed, "data").data

\* the decode stages, each applied to the result of the one before:
\* bit-unpack -> reconstruct redundancy -> decompress
Unpacked ==
    decode_data(mode, buffer, decoded.data_length, OptResolved.channels,
                OptResolved.bit_frequency, OptResolved.byte_spacing,
                decoded.data_position).data

ThenReconstructed == reconstruct_redundancy(pattern, Unpacked, "data", encoded.coded).data

ThenDecompressed ==
    IF OptResolved.compression_enabled
    THEN static_decompress_data(ThenReconstructed, pattern.compression).data
    ELSE ThenReconstructed

\* C27: pipeline order.  apply_pattern packs into the pixels the buffer
\* redundancy(compress(payload + digest(payload))): the digest is taken of
\* the payload before compression, compression comes before redundancy and
\* the bit-packing is last.  extract_data runs the inverse stages in the
\* reverse order: the buffer it brings to the integrity check is
\* decompress(reconstruct(unpack(pixels))), and what it returns is that
\* buffer with the digest split off and verified (the buffer itself without
\* hashing).
C27_PipelineOrder ==
    (pc \in {"opt_encoded", "opt_decoded"} /\ encoded.err = "")
    => /\ encoded.data = ThenRedundant
       /\ decode_data(mode, encoded.pixels, Len(ThenRedundant), OptResolved.channels,
                      OptResolved.bit_frequency, OptResolved.byte_spacing,
                      encoded.data_position).data = ThenRedundant
       /\ (pc = "opt_decoded" /\ decoded.reached_check)
          => /\ decoded.data_bytes = ThenDecompressed
             /\ IF Truthy(OptResolved.hash_check)
                THEN decoded.err = ""
                     => /\ decoded.data
                               = Slice(ThenDecompressed, 0, Len(ThenDecompressed) - SPLIT_SIZE)
                        /\ compute_hash(pattern, decoded.data).data
                               = SliceFrom(ThenDecompressed,
                                           Max(Len(ThenDecompressed) - SPLIT_SIZE, 0))
                ELSE decoded.err = "" /\ decoded.data = ThenDecompressed

\* a payload went through hashing, zlib and Reed-Solomon and the read came
\* to the integrity check
C27_Witness ==
    /\ pc = "opt_decoded" /\ decoded.reached_check
    /\ Len(data) > 0
    /\ Truthy(OptResolved.hash_check)
    /\ OptResolved.compression_enabled
    /\ pattern.advanced_redundancy = "reed_solomon"
    /\ Len(ThenCompressed) > Len(WithDigest)
    /\ Len(ThenRedundant) > Len(ThenCompressed)


-----------------------------------------------------------------------------
(* Claims about the header record, checked on the pipeline scenario *)

\* the header generate_header builds for the packed payload, before redundancy
PlainHeader == HeaderFields(pattern, Len(encoded.data))

\* C19: header record layout.  With the header enabled and at least one of
\* header_write_data_size / header_write_pattern set, the header before
\* redundancy is exactly 5 bytes: the 4-byte big-endian length of the packed
\* payload (zero when header_write_data_size is false), then a flag byte that
\* is 1 iff header_write_pattern; and extract_data, called without a length,
\* finds byte 4 of the reconstructed header and takes the length from its
\* bytes 0..3.
C19_HeaderLayout ==
    (/\ Encoded
     /\ pattern.header_enabled
     /\ pattern.header_write_data_size \/ pattern.header_write_pattern)
    => /\ Len(PlainHeader) = 5
       /\ Slice(PlainHeader, 0, 4)
              = to_bytes_4(IF pattern.header_write_data_size THEN Len(encoded.data) ELSE 0)
       /\ PlainHeader[5] = (IF pattern.header_write_pattern THEN 1 ELSE 0)
       /\ (pc = "pipe_decoded" /\ args.data_length = None)
          => /\ decoded.err # "IndexError"
             /\ Len(decoded.header_data) > 0
                => decoded.data_length = from_bytes(Slice(decoded.header_data, 0, 4))


\* the bits one pixel takes of the header: its eligible channels times the
\* header's bits per channel
HeaderBitsPerPixel ==
    Cardinality({ci \in 1..Len(mode) : In(mode[ci], Resolved.header_channels)})
    * Resolved.header_bit_frequency

\* the header's encoded pixel span: the pixels from the first to the last one
\* that holds header bits
HeaderPixelSpan ==
    (CeilDiv(8 * Len(encoded.header), HeaderBitsPerPixel) - 1) * Resolved.header_byte_spacing + 1

\* where the placement rule starts the payload
PayloadStart ==
    IF Resolved.header_position = "image_start" /\ pattern.offset >= HeaderPixelSpan
    THEN pattern.offset
    ELSE pattern.offset + HeaderPixelSpan

\* C20: header placement rule.  With a header written in full: when it is at
\* the image start and the data offset is not inside its pixel span, the
\* encoder writes and the decoder reads the payload from pixel offset; when
\* it is before the data, or at the image start with the offset inside its
\* span, both start the payload at offset + the header's pixel span.
C20_HeaderPlacement ==
    (Encoded /\ Len(encoded.header) > 0 /\ HeaderFits)
    => /\ encoded.data_position = PayloadStart
       /\ (pc = "pipe_decoded" /\ Len(decoded.header_data) > 0)
          => decoded.data_position = PayloadStart


-----------------------------------------------------------------------------
(* Claims about the raster a direct encode_data call returns *)

\* C30: raster shape is preserved.  The raster encode_data returns has as
\* many pixels as the input raster, each with as many channel values as the
\* input pixel at the same place, also when the data runs out of pixels
\* before all its bits are written.
C30_RasterShape ==
    (pc \in {"codec_encoded", "codec_decoded"})
    => /\ Len(encoded.pixels) = Len(pixels)
       /\ \A p \in 1..Len(pixels) : Len(encoded.pixels[p]) = Len(pixels[p])


-----------------------------------------------------------------------------
(* Claims about the header's extent, checked on the pipeline scenario *)

\* extract_data read the header and went on to the payload
HeaderParsed == pc = "pipe_decoded" /\ Len(decoded.header_data) > 0

\* C29: encoder and decoder agree on the header's extent.  With the header
\* enabled, the length of generate_header(0), which the decoder reads, is the
\* length of the header the encoder wrote for the payload; and when
\* extract_data has read the header, the span its decode_data call returned
\* is the span the encoder's encode_data call returned, and the pixel it
\* starts the payload at is the pixel the encoder started it at.
C29_HeaderExtent ==
    (Encoded /\ pattern.header_enabled)
    => /\ generate_header(pattern, 0).err = ""
       /\ Len(generate_header(pattern, 0).data) = Len(encoded.header)
       /\ HeaderParsed
          => /\ decoded.header_size = Len(encoded.header)
             /\ decoded.header_span = encoded.header_added_offset
             /\ decoded.data_position = encoded.data_position

-----------------------------------------------------------------------------
(* Scenario SpecProcess: the calls of the orchestrators.  An Encoder and a  *)
(* Decoder object are given one Pattern object; load_image, unload_image    *)
(* and process are called on them in any order.  Every action is one call,  *)
(* so every state is the state at the exit of a call.  The files:           *)
(* "in.png", a supported image holding the input raster; "gif.png", a       *)
(* supported extension on a file whose content is of another format;        *)
(* "notes.txt", an unsupported extension; "out.png", the file               *)
(* Encoder.process saves (buffer is its raster, <<>> while it is not        *)
(* written).  args holds the two objects and the image handles Image.open   *)
(* has returned, in the order they were opened; a handle keeps the raster   *)
(* it has read (Image.getdata loads the file once).                         *)

\* raster size (in pixels) of the input image of the scenario
ProcRaster == 16
\* most calls made in a behaviour
MaxCalls == 3

currently_supported_formats == {"PNG", "BMP", "PGM", "PPM"}

\* file_path.split('.')[-1].upper()
FileExtension(file_path) == IF file_path = "notes.txt" THEN "TXT" ELSE "PNG"

\* image.format, which Image.open finds from the content of the file
FileFormat(file_path) == IF file_path = "gif.png" THEN "GIF" ELSE "PNG"

\* the file is there for Image.open; stored is the raster of "out.png"
FileExists(file_path, stored) == file_path # "out.png" \/ stored # <<>>

\* an absent keyword argument, and self.image / self.pattern when unset
Absent == "None"
NoImage == 0

\* BaseSteganography._perform_load_image(file_path), called by the method by:
\* the exception, the handle returned and the handles as the call leaves them
perform_load_image(handles, file_path, by, stored) ==
    IF FileExtension(file_path) \notin currently_supported_formats
    THEN [err |-> "UnsupportedImageFormatError", image |-> NoImage, handles |-> handles]
    ELSE IF ~FileExists(file_path, stored)
    THEN [err |-> "FileNotFoundError", image |-> NoImage, handles |-> handles]   \* Image.open
    ELSE LET opened == Append(handles, [path |-> file_path, open |-> TRUE, by |-> by, raster |-> <<>>])
         IN  IF FileFormat(file_path) \notin currently_supported_formats
             THEN [err |-> "UnsupportedImageFormatError", image |-> NoImage,
                   handles |-> [opened EXCEPT ![Len(opened)].open = FALSE]]   \* image.close()
             ELSE [err |-> "", image |-> Len(opened), handles |-> opened]

\* BaseSteganography._perform_unload_image(image)
perform_unload_image(handles, image) ==
    IF image # NoImage THEN [handles EXCEPT ![image].open = FALSE] ELSE handles

\* get_image_pixels(image): the raster of the handle and the handles after it
get_image_pixels(handles, image, pxs, stored) ==
    LET raster == IF handles[image].raster # <<>> THEN handles[image].raster
                  ELSE IF handles[image].path = "out.png" THEN stored ELSE pxs
    IN  [pixels |-> raster, handles |-> [handles EXCEPT ![image].raster = raster]]

\* str.encode("utf-8") of a string given by its code points (below 65536)
RECURSIVE utf8_encode(_)
utf8_encode(text) ==
    IF Len(text) = 0 THEN <<>>
    ELSE LET c == text[1]
         IN  (IF c < 128 THEN <<c>>
              ELSE IF c < 2048 THEN <<192 + (c \div 64), 128 + (c % 64)>>
              ELSE <<224 + (c \div 4096), 128 + ((c \div 64) % 64), 128 + (c % 64)>>)
             \o utf8_encode(Tail(text))

\* bytes.decode("utf-8"): the code points, or UnicodeDecodeError
RECURSIVE utf8_decode(_)
utf8_decode(b) ==
    LET cont(i) == i <= Len(b) /\ b[i] >= 128 /\ b[i] <= 191
        rest(k, c) ==
            Value({IF r.err # "" THEN r ELSE [err |-> "", text |-> <<c>> \o r.text] :
                   r \in {utf8_decode(SliceFrom(b, k))}})
    IN  IF Len(b) = 0 THEN [err |-> "", text |-> <<>>]
        ELSE IF b[1] < 128 THEN rest(1, b[1])
        ELSE IF b[1] >= 194 /\ b[1] <= 223 /\ cont(2)
        THEN rest(2, (b[1] - 192) * 64 + (b[2] - 128))
        ELSE IF b[1] >= 224 /\ b[1] <= 239 /\ cont(2) /\ cont(3)
                /\ (b[1] - 224) * 4096 + (b[2] - 128) * 64 >= 2048
        THEN rest(3, (b[1] - 224) * 4096 + (b[2] - 128) * 64 + (b[3] - 128))
        ELSE [err |-> "UnicodeDecodeError", text |-> <<>>]

\* str.rstrip('\0')
RECURSIVE rstrip_nul(_)
rstrip_nul(text) ==
    IF Len(text) > 0 /\ text[Len(text)] = 0 THEN rstrip_nul(SubSeq(text, 1, Len(text) - 1))
    ELSE text

\* the code points of "File '" and of "' has been extracted."
FILE_NOTICE_HEAD == <<70, 105, 108, 101, 32, 39>>
FILE_NOTICE_TAIL ==
    <<39, 32, 104, 97, 115, 32, 98, 101, 101, 110, 32, 101, 120, 116, 114, 97, 99, 116,
      101, 100, 46>>

\* the length of the file name field of a type-1 payload
FILE_NAME_SIZE == 64

\* what a Decoder.process call gives before it sets any of it: the exception,
\* the value returned (kind "str" with code points, or "bytes"), how far the
\* call came (stage), the handle it read, the bytes extract_data returned
\* and the file _process_data wrote
NoProcessResult ==
    [err |-> "", kind |-> "", value |-> <<>>, stage |-> "", image |-> NoImage,
     data_bytes |-> <<>>, file_name |-> <<>>, file_data |-> <<>>]

\* Decoder._process_data(data_bytes)
process_data(res, data_bytes) ==
    IF Len(data_bytes) = 0 THEN [res EXCEPT !.err = "IndexError"]           \* data_bytes[0]
    ELSE LET data_type == data_bytes[1]
             body == Tail(data_bytes)
         IN  IF data_type = 0
             THEN Value({IF t.err # "" THEN [res EXCEPT !.err = t.err]
                         ELSE [res EXCEPT !.kind = "str", !.value = t.text] :
                         t \in {utf8_decode(body)}})
             ELSE IF data_type = 1
             THEN Value({IF t.err # "" THEN [res EXCEPT !.err = t.err]
                         ELSE IF Len(rstrip_nul(t.text)) = 0
                         THEN [res EXCEPT !.err = "FileNotFoundError"]       \* open('', 'wb')
                         ELSE [res EXCEPT
                                  !.kind = "str",
                                  !.value = FILE_NOTICE_HEAD \o rstrip_nul(t.text)
                                                \o FILE_NOTICE_TAIL,
                                  !.file_name = rstrip_nul(t.text),
                                  !.file_data = SliceFrom(body, Min(FILE_NAME_SIZE, Len(body)))] :
                         t \in {utf8_decode(Slice(body, 0, FILE_NAME_SIZE))}})
             ELSE IF data_type = 2
             THEN [res EXCEPT !.kind = "bytes", !.value = body]
             ELSE [res EXCEPT !.err = "InvalidDataTypeEncounteredDecodingError"]

\* what an Encoder.process call gives before it sets any of it
NoSave == With(NoEncoding, [stage |-> "", image |-> NoImage, payload |-> <<>>])

\* Encoder.process(input_path=..., pattern=..., data=..., output_path="out.png")
\* on the Encoder object self with the Pattern object pat: the objects, the
\* handles and the file "out.png" as the call leaves them, and its result
encoder_process(self, handles, pat, image_mode, pxs, d, input_path, pattern_arg, stored) ==
    LET quit(self1, handles1, pat1, res) ==
            [self |-> self1, handles |-> handles1, pattern |-> pat1, stored |-> stored,
             result |-> res]
        loaded ==
            IF self.image = NoImage \/ input_path # Absent
            THEN IF input_path # Absent
                 THEN perform_load_image(handles, input_path, "process", stored)
                 ELSE [err |-> "ValueError", image |-> NoImage, handles |-> handles]
            ELSE [err |-> "", image |-> self.image, handles |-> handles]
        self1 == [self EXCEPT !.image = loaded.image]
        self2 == [self1 EXCEPT !.pattern = IF pattern_arg # Absent THEN TRUE ELSE @]
        payload == IF d.kind = "str" THEN utf8_encode(d.value) ELSE d.value
        read == get_image_pixels(loaded.handles, self2.image, pxs, stored)
    IN  IF loaded.err # ""
        THEN quit(self, loaded.handles, pat, [NoSave EXCEPT !.err = loaded.err])
        ELSE IF ~self1.pattern /\ pattern_arg = Absent
        THEN quit(self1, loaded.handles, pat,
                  [NoSave EXCEPT !.err = "ValueError", !.stage = "image",
                                 !.image = self1.image])
        ELSE Value({
                 IF r.err # ""
                 THEN quit(self2, read.handles, r.self,
                           With(r, [stage |-> "pattern", image |-> self2.image,
                                    payload |-> payload]))
                 ELSE [self |-> [self2 EXCEPT !.processed_image = TRUE],
                       handles |-> read.handles,
                       pattern |-> r.self,
                       stored |-> r.pixels,
                       result |-> With(r, [stage |-> "saved", image |-> self2.image,
                                           payload |-> payload])] :
                 r \in {apply_pattern(pat, image_mode, read.pixels, payload)}})

\* Decoder.process(file_path=..., pattern=...) on the Decoder object self
decoder_process(self, handles, pat, image_mode, pxs, file_path, pattern_arg, stored) ==
    LET quit(self1, handles1, pat1, res) ==
            [self |-> self1, handles |-> handles1, pattern |-> pat1, result |-> res]
        loaded ==
            IF self.image = NoImage \/ file_path # Absent
            THEN IF file_path # Absent
                 THEN perform_load_image(handles, file_path, "process", stored)
                 ELSE [err |-> "NoImageLoadedError", image |-> NoImage, handles |-> handles]
            ELSE [err |-> "", image |-> self.image, handles |-> handles]
        self1 == [self EXCEPT !.image = loaded.image]
        self2 == [self1 EXCEPT !.pattern = IF pattern_arg # Absent THEN TRUE ELSE @]
        read == get_image_pixels(loaded.handles, self2.image, pxs, stored)
    IN  IF loaded.err # ""
        THEN quit(self, loaded.handles, pat, [NoProcessResult EXCEPT !.err = loaded.err])
        ELSE IF ~self1.pattern /\ pattern_arg = Absent
        THEN quit(self1, loaded.handles, pat,
                  [NoProcessResult EXCEPT !.err = "NoPatternLoadedError", !.stage = "image",
                                          !.image = self1.image])
        ELSE Value({
                 IF x.err # ""
                 THEN quit(self2, read.handles, x.self,
                           [NoProcessResult EXCEPT !.err = x.err, !.stage = "pattern",
                                                   !.image = self2.image])
                 ELSE quit(self2, read.handles, x.self,
                           process_data([NoProcessResult EXCEPT
                                            !.stage = "extracted",
                                            !.image = self2.image,
                                            !.data_bytes = x.data],
                                        x.data)) :
                 \* the patterns of the scenario use no Reed-Solomon code
                 x \in {extract_data(pat, image_mode, read.pixels, None, FALSE, <<>>, <<>>)}})

\* the payloads handed to Encoder.process: text (by code points) and bytes
ProcPayloads ==
    {[kind |-> "str", value |-> <<104, 105>>],
     [kind |-> "str", value |-> <<261>>],
     [kind |-> "str", value |-> <<>>],
     [kind |-> "bytes", value |-> <<2, 165>>],
     [kind |-> "bytes", value |-> <<0, 104>>],
     [kind |-> "bytes", value |-> <<1, 111>>],
     [kind |-> "bytes", value |-> <<165>>]}

ProcPatterns == {PipeBase, With(PipeBase, [hash_check |-> "sha256"])}

InitProcess ==
    /\ pc = "calls"
    /\ mode = RGBA
    /\ pixels = Raster(mode, ProcRaster, 2)
    /\ data \in ProcPayloads
    /\ \E kwargs \in ProcPatterns : pattern = PatternInit(kwargs)
    /\ args = [encoder |-> [image |-> NoImage, pattern |-> FALSE, processed_image |-> FALSE],
               decoder |-> [image |-> NoImage, pattern |-> FALSE],
               handles |-> <<>>,
               calls |-> 0]
    /\ encoded = NoSave
    /\ buffer = <<>>
    /\ corrupted = {}
    /\ decoded = NoProcessResult

\* encoder.load_image(file_path) or decoder.load_image(file_path)
LoadImage ==
    /\ pc = "calls" /\ args.calls < MaxCalls
    /\ \E o \in {"encoder", "decoder"}, file_path \in {"in.png", "gif.png", "notes.txt", "out.png"} :
           \E r \in {perform_load_image(args.handles, file_path, "load_image", buffer)} :
               args' = [args EXCEPT ![o].image = IF r.err = "" THEN r.image ELSE @,
                                    !.handles = r.handles,
                                    !.calls = @ + 1]
    /\ UNCHANGED <<pc, mode, pixels, data, pattern, encoded, buffer, corrupted, decoded>>

\* encoder.unload_image() or decoder.unload_image()
UnloadImage ==
    /\ pc = "calls" /\ args.calls < MaxCalls
    /\ \E o \in {"encoder", "decoder"} :
           args' = [args EXCEPT !.handles = perform_unload_image(@, args[o].image),
                                ![o].image = NoImage,
                                !.calls = @ + 1]
    /\ UNCHANGED <<pc, mode, pixels, data, pattern, encoded, buffer, corrupted, decoded>>

\* encoder.process(data=data, output_path="out.png"), with or without
\* input_path and pattern
EncoderProcess ==
    /\ pc = "calls" /\ args.calls < MaxCalls
    /\ \E input_path \in {Absent, "in.png", "gif.png", "notes.txt"}, pattern_arg \in {Absent, "pattern"} :
           \E r \in {encoder_process(args.encoder, args.handles, pattern, mode, pixels, data,
                                    input_path, pattern_arg, buffer)} :
               /\ args' = [args EXCEPT !.encoder = r.self, !.handles = r.handles,
                                       !.calls = @ + 1]
               /\ pattern' = r.pattern
               /\ buffer' = r.stored
               /\ encoded' = r.result
    /\ UNCHANGED <<pc, mode, pixels, data, corrupted, decoded>>

\* decoder.process(), with or without file_path and pattern
DecoderProcess ==
    /\ pc = "calls" /\ args.calls < MaxCalls
    /\ \E file_path \in {Absent, "out.png", "notes.txt"}, pattern_arg \in {Absent, "pattern"} :
           \E r \in {decoder_process(args.decoder, args.handles, pattern, mode, pixels,
                                    file_path, pattern_arg, buffer)} :
               /\ args' = [args EXCEPT !.decoder = r.self, !.handles = r.handles,
                                       !.calls = @ + 1]
               /\ pattern' = r.pattern
               /\ decoded' = r.result
    /\ UNCHANGED <<pc, mode, pixels, data, encoded, buffer, corrupted>>

NextProcess == LoadImage \/ UnloadImage \/ EncoderProcess \/ DecoderProcess

SpecProcess == InitProcess /\ [][NextProcess]_vars

\* Decoder.process found an image and a pattern and read the image that
\* Encoder.process saved
ReadEncodedImage ==
    /\ decoded.stage \in {"pattern", "extracted"}
    /\ args.handles[decoded.image].path = "out.png"

\* C21: type-tag framing.  Decoder.process on the image Encoder.process saved,
\* with the same pattern, returns the text or the bytes that Encoder.process
\* was given; and when the first byte of what extract_data returned is not
\* 0, 1 or 2, the call raises InvalidDataTypeEncounteredDecodingError.
C21_TypeTagFraming ==
    ReadEncodedImage
    => /\ decoded.err = ""
       /\ decoded.kind = data.kind
       /\ decoded.value = data.value
       /\ (decoded.stage = "extracted" /\ Len(decoded.data_bytes) > 0
           /\ decoded.data_bytes[1] \notin {0, 1, 2})
          => decoded.err = "InvalidDataTypeEncounteredDecodingError"

\* C24: image handle release.  At the exit of every call, no handle that a
\* process call opened is open, and every open handle is the image of the
\* Encoder or of the Decoder object.
C24_HandleRelease ==
    \A h \in DOMAIN args.handles :
        /\ args.handles[h].by = "process" => ~args.handles[h].open
        /\ args.handles[h].open => h \in {args.encoder.image, args.decoder.image}


====
